---- MODULE Spec2Model ----
(***************************************************************************)
(* Model of the tax computation engine of the freelancer tax application   *)
(* (src/server/services/taxService.ts): the progressive income tax         *)
(* function, the comparative calculator, the advance-tax scheduler and the *)
(* financial-year resolver, driven by a caller and a wall clock.           *)
(*                                                                         *)
(* Numbers.  The engine computes in IEEE doubles.  For whole-rupee incomes *)
(* every intermediate value is a multiple of 1/10 rupee before the slab    *)
(* rates are applied, so income figures are held in fixed point, as a      *)
(* count of 1/FP rupee, and the tax subtotal as a count of 1/(FP*100)      *)
(* rupee.  Results of Math.round are whole rupees.  Products that would    *)
(* leave the checker's integer range are formed by quotient and remainder. *)
(*                                                                         *)
(* Strings.  A string is a sequence of one-character strings, so that      *)
(* toString, slice and template literals are computed character by         *)
(* character.                                                              *)
(***************************************************************************)
EXTENDS Integers, Sequences, FiniteSets, TLC

VARIABLES
    clock,            \* the wall clock read by `new Date()`: [year, month]
    service,          \* the fields of the singleton taxService
    returned,         \* the value the engine last returned to its caller (at most one)
    earlier,          \* an earlier call and its value, kept by the caller (at most one)
    incomeTaxEvals,   \* the last two evaluations of calculateIncomeTax: <<[x, tax], ...>>
    storage,          \* the Maps of the singleton MemStorage, each in insertion order
    uuids,            \* the number of identifiers drawn by randomUUID(), per Map
    requests,         \* the route handlers suspended at an await, by authenticated user
    procs,            \* the runs of processDocumentAsync, by document id
    response,         \* the response a route handler last sent (at most one)
    page              \* the state of the tax calculator page of the client

\* the state of the application around the engine
appVars == <<storage, uuids, requests, procs, response, page>>

vars == <<clock, service, returned, earlier, incomeTaxEvals, appVars>>

----------------------------------------------------------------------------
(* Bounds of the model *)

IncomeStep == 100000       \* incomes are taken around the multiples of IncomeStep
MaxIncomeSteps == 32       \* ... up to MaxIncomeSteps * IncomeStep rupees
FineStep == 37             \* ... each with 0..MaxFine times FineStep rupees added
MaxFine == 3
FirstYear == 2098          \* first calendar year of the clock
LastYear == 2100           \* last calendar year of the clock
BoundaryWindow == 2        \* taxable incomes within this many tenths of a slab bound
MaxGstUnits == 4           \* invoice amounts of up to MaxGstUnits times 5 rupees, of either sign

----------------------------------------------------------------------------
(* Numbers *)

FP == 10

Infinity == 2147483647

MathMax(a, b) == IF a >= b THEN a ELSE b

MathMin(a, b) == IF a <= b THEN a ELSE b

MathAbs(a) == IF a < 0 THEN 0 - a ELSE a

\* Math.round(n * m / d) for integers n, m and d > 0: floor(n*m/d + 1/2), the
\* product n*m formed on the remainder of n by d only (\div rounds down and
\* % is never negative, so n = d * (n \div d) + (n % d) for either sign).
MathRoundMulDiv(n, m, d) ==
    m * (n \div d) + (2 * (n % d) * m + d) \div (2 * d)

----------------------------------------------------------------------------
(* Strings *)

DigitChars == <<"0", "1", "2", "3", "4", "5", "6", "7", "8", "9">>

RECURSIVE toString(_)
toString(n) ==
    IF n < 10 THEN <<DigitChars[n + 1]>>
    ELSE toString(n \div 10) \o <<DigitChars[(n % 10) + 1]>>

\* s.slice(-k)
sliceLast(s, k) ==
    IF Len(s) <= k THEN s ELSE SubSeq(s, Len(s) - k + 1, Len(s))

----------------------------------------------------------------------------
(* The clock: new Date(), getFullYear(), getMonth() *)

Years == FirstYear .. LastYear

Dates == [year : Years, month : 1 .. 12]

getFullYear(date) == date.year

\* 0-based month
getMonth(date) == date.month - 1

----------------------------------------------------------------------------
(* TaxService: configuration *)

\* slip: a gap between the second and the third slab
taxSlabsInitializer_gap == <<
    [min |-> 0,       max |-> 300000,   rate |-> 0],
    [min |-> 300000,  max |-> 700000,   rate |-> 5],
    [min |-> 750000,  max |-> 1000000,  rate |-> 10],
    [min |-> 1000000, max |-> 1200000,  rate |-> 15],
    [min |-> 1200000, max |-> 1500000,  rate |-> 20],
    [min |-> 1500000, max |-> Infinity, rate |-> 30] >>

\* the initializers of the fields of a new TaxService
taxSlabsInitializer == <<
    [min |-> 0,       max |-> 300000,   rate |-> 0],
    [min |-> 300000,  max |-> 700000,   rate |-> 5],
    [min |-> 700000,  max |-> 1000000,  rate |-> 10],
    [min |-> 1000000, max |-> 1200000,  rate |-> 15],
    [min |-> 1200000, max |-> 1500000,  rate |-> 20],
    [min |-> 1500000, max |-> Infinity, rate |-> 30] >>

standardDeductionInitializer == 50000

healthInsuranceDeductionInitializer == 25000

\* `new TaxService()`
newTaxService ==
    [taxSlabs |-> taxSlabsInitializer,
     standardDeduction |-> standardDeductionInitializer,
     healthInsuranceDeduction |-> healthInsuranceDeductionInitializer]

\* this.taxSlabs, this.standardDeduction, this.healthInsuranceDeduction
taxSlabs == service.taxSlabs

standardDeduction == service.standardDeduction

healthInsuranceDeduction == service.healthInsuranceDeduction

\* slip: a method that clears the standard deduction once it has used it
fieldsAfterCall_cleared(fields) == [fields EXCEPT !.standardDeduction = 0]

\* the fields after a call of any method: no method assigns a field
fieldsAfterCall(fields) == fields

----------------------------------------------------------------------------
(* TaxService.calculateIncomeTax *)

\* slip: the guard `taxableIncome > slab.min` left out
slabApplies_unguarded(taxableIncome, slab) == TRUE

\* slip: only the slab that contains the income is taxed
slabApplies_marginal(taxableIncome, slab) ==
    /\ taxableIncome > slab.min * FP
    /\ \/ slab.max = Infinity
       \/ taxableIncome <= slab.max * FP

\* `taxableIncome > slab.min`, taxableIncome in 1/FP rupee
slabApplies(taxableIncome, slab) == taxableIncome > slab.min * FP

\* slip: Math.min left out, the slab not capped at its upper bound
taxableAmountInSlab_uncapped(taxableIncome, slab) == taxableIncome - slab.min * FP

\* `Math.min(taxableIncome, slab.max) - slab.min`, in 1/FP rupee
taxableAmountInSlab(taxableIncome, slab) ==
    (IF slab.max = Infinity THEN taxableIncome
     ELSE MathMin(taxableIncome, slab.max * FP)) - slab.min * FP

\* the loop over this.taxSlabs from slab i on; tax in 1/(FP*100) rupee, so
\* that `(taxableAmountInSlab * slab.rate) / 100` adds amount * rate
RECURSIVE slabLoop(_, _, _)
slabLoop(taxableIncome, i, tax) ==
    IF i > Len(taxSlabs) THEN tax
    ELSE slabLoop(taxableIncome, i + 1,
                  IF slabApplies(taxableIncome, taxSlabs[i])
                  THEN tax + taxableAmountInSlab(taxableIncome, taxSlabs[i]) * taxSlabs[i].rate
                  ELSE tax)

\* slip: Math.floor in place of Math.round
cessAndRound_floor(tax) == 104 * (tax \div (100 * (FP * 100))) +
                           ((tax % (100 * (FP * 100))) * 104) \div (100 * (FP * 100))

\* `tax = tax * 1.04; return Math.round(tax)`: tax in 1/(FP*100) rupee, the
\* result in whole rupees
cessAndRound(tax) == MathRoundMulDiv(tax, 104, 100 * (FP * 100))

calculateIncomeTax(taxableIncome) ==
    cessAndRound(slabLoop(taxableIncome, 1, 0))

----------------------------------------------------------------------------
(* TaxService.calculateAdvanceTaxSchedule *)

\* slip: Math.floor in place of Math.round
scheduleAmount_floor(annualTax, percentage) == (annualTax * percentage) \div 100

\* `Math.round(annualTax * percentage / 100)` for the literals 0.15, 0.45, 0.75
scheduleAmount(annualTax, percentage) == MathRoundMulDiv(annualTax, percentage, 100)

\* slip: the start year of the financial year in place of the calendar year
scheduleYear_financial(now) ==
    IF getMonth(now) + 1 >= 4 THEN getFullYear(now) ELSE getFullYear(now) - 1

\* `const financialYear = currentYear`
scheduleYear(now) == getFullYear(now)

\* the amount of the last entry: `amount: annualTax`
lastAmount(annualTax) == annualTax

\* slip: an instalment whose due date has passed is reported as 0
calculateAdvanceTaxSchedule_pastDue(annualTax, now) ==
    LET financialYear == scheduleYear(now)
        month == getMonth(now) + 1
    IN
    << [quarter |-> 1, percentage |-> 15,
        amount |-> IF month > 6 THEN 0 ELSE scheduleAmount(annualTax, 15),
        dueDate |-> toString(financialYear) \o <<"-", "0", "6", "-", "1", "5">>,
        description |-> "Q1 (15% by 15 Jun)"],
       [quarter |-> 2, percentage |-> 45,
        amount |-> IF month > 9 THEN 0 ELSE scheduleAmount(annualTax, 45),
        dueDate |-> toString(financialYear) \o <<"-", "0", "9", "-", "1", "5">>,
        description |-> "Q2 (45% by 15 Sep)"],
       [quarter |-> 3, percentage |-> 75,
        amount |-> scheduleAmount(annualTax, 75),
        dueDate |-> toString(financialYear) \o <<"-", "1", "2", "-", "1", "5">>,
        description |-> "Q3 (75% by 15 Dec)"],
       [quarter |-> 4, percentage |-> 100,
        amount |-> lastAmount(annualTax),
        dueDate |-> toString(financialYear + 1) \o <<"-", "0", "3", "-", "1", "5">>,
        description |-> "Q4 (100% by 15 Mar)"] >>

calculateAdvanceTaxSchedule(annualTax, now) ==
    LET financialYear == scheduleYear(now) IN
    << [quarter |-> 1, percentage |-> 15,
        amount |-> scheduleAmount(annualTax, 15),
        dueDate |-> toString(financialYear) \o <<"-", "0", "6", "-", "1", "5">>,
        description |-> "Q1 (15% by 15 Jun)"],
       [quarter |-> 2, percentage |-> 45,
        amount |-> scheduleAmount(annualTax, 45),
        dueDate |-> toString(financialYear) \o <<"-", "0", "9", "-", "1", "5">>,
        description |-> "Q2 (45% by 15 Sep)"],
       [quarter |-> 3, percentage |-> 75,
        amount |-> scheduleAmount(annualTax, 75),
        dueDate |-> toString(financialYear) \o <<"-", "1", "2", "-", "1", "5">>,
        description |-> "Q3 (75% by 15 Dec)"],
       [quarter |-> 4, percentage |-> 100,
        amount |-> lastAmount(annualTax),
        dueDate |-> toString(financialYear + 1) \o <<"-", "0", "3", "-", "1", "5">>,
        description |-> "Q4 (100% by 15 Mar)"] >>

----------------------------------------------------------------------------
(* TaxService.calculateTax *)

\* `totalIncome * 0.5`, in 1/FP rupee
presumptiveIncome(totalIncome) == (totalIncome * FP) \div 2

\* slip: 70% of the income assumed as expenses
assumedExpenses_most(totalIncome) == (totalIncome * FP * 7) \div 10

\* `totalIncome * 0.1`, in 1/FP rupee
assumedExpenses(totalIncome) == (totalIncome * FP) \div 10

\* slip: Math.max(0, ...) left out
presumptiveTaxable_unclamped(section44adaIncome) ==
    section44adaIncome - standardDeduction * FP

\* `Math.max(0, section44adaIncome - this.standardDeduction)`
presumptiveTaxable(section44adaIncome) ==
    MathMax(0, section44adaIncome - standardDeduction * FP)

\* slip: the health insurance deduction taken whatever the flag
regularTaxable_always(totalIncome, hasHealthInsurance) ==
    MathMax(0, totalIncome * FP - assumedExpenses(totalIncome) - standardDeduction * FP
               - healthInsuranceDeduction * FP)

\* `Math.max(0, totalIncome - actualExpenses - this.standardDeduction -
\*   (hasHealthInsurance ? this.healthInsuranceDeduction : 0))`
regularTaxable(totalIncome, hasHealthInsurance) ==
    MathMax(0, totalIncome * FP - assumedExpenses(totalIncome) - standardDeduction * FP
               - (IF hasHealthInsurance THEN healthInsuranceDeduction * FP ELSE 0))

\* slip: `<` in place of `<=`
schemeOf_strict(section44adaTax, regularTax) ==
    IF section44adaTax < regularTax THEN "section44ada" ELSE "regular"

schemeOf(section44adaTax, regularTax) ==
    IF section44adaTax <= regularTax THEN "section44ada" ELSE "regular"

\* slip: the branches exchanged
finalTaxOf_swapped(recommendedScheme, section44adaTax, regularTax) ==
    IF recommendedScheme = "section44ada" THEN regularTax ELSE section44adaTax

finalTaxOf(recommendedScheme, section44adaTax, regularTax) ==
    IF recommendedScheme = "section44ada" THEN section44adaTax ELSE regularTax

\* slip: Math.abs left out
savingsOf_signed(section44adaTax, regularTax) == section44adaTax - regularTax

savingsOf(section44adaTax, regularTax) == MathAbs(section44adaTax - regularTax)

\* slip: the default of the other value
defaultHealthInsurance_true == TRUE

\* `hasHealthInsurance: boolean = false`
defaultHealthInsurance == FALSE

\* The result record.  totalIncome is in rupees as passed; section44adaIncome
\* and regularTaxableIncome are in 1/FP rupee; the taxes and savings are whole
\* rupees.  incomeTaxArgs lists the arguments of the two calculateIncomeTax
\* calls in call order.
calculateTax(totalIncome, hasHealthInsurance, now) ==
    LET section44adaIncome == presumptiveIncome(totalIncome)
        section44adaTaxableIncome == presumptiveTaxable(section44adaIncome)
        section44adaTax == calculateIncomeTax(section44adaTaxableIncome)
        regularTaxableIncome == regularTaxable(totalIncome, hasHealthInsurance)
        regularTax == calculateIncomeTax(regularTaxableIncome)
        recommendedScheme == schemeOf(section44adaTax, regularTax)
        finalTax == finalTaxOf(recommendedScheme, section44adaTax, regularTax)
        savings == savingsOf(section44adaTax, regularTax)
        advanceTaxSchedule == calculateAdvanceTaxSchedule(finalTax, now)
    IN  [totalIncome |-> totalIncome,
         section44adaIncome |-> section44adaIncome,
         regularTaxableIncome |-> regularTaxableIncome,
         section44adaTax |-> section44adaTax,
         regularTax |-> regularTax,
         recommendedScheme |-> recommendedScheme,
         savings |-> savings,
         advanceTaxSchedule |-> advanceTaxSchedule,
         incomeTaxArgs |-> <<section44adaTaxableIncome, regularTaxableIncome>>]

----------------------------------------------------------------------------
(* TaxService.getCurrentFinancialYear *)

\* slip: `>` in place of `>=`
afterMarch_strict(month) == month > 4

\* `month >= 4`: the financial year starts on April 1
afterMarch(month) == month >= 4

\* `n.toString().slice(-2)`
yearSuffix(n) == sliceLast(toString(n), 2)

getCurrentFinancialYear(now) ==
    LET year == getFullYear(now)
        month == getMonth(now) + 1
    IN  IF afterMarch(month)
        THEN toString(year) \o <<"-">> \o yearSuffix(year + 1)
        ELSE toString(year - 1) \o <<"-">> \o yearSuffix(year)

----------------------------------------------------------------------------
(* TaxService.calculateGST *)

\* slip: the rate forced into 0..100
calculateGST_clamped(amount, gstRate) ==
    MathRoundMulDiv(amount, MathMax(0, MathMin(100, gstRate)), 100)

\* `Math.round((amount * gstRate) / 100)`, amount in whole rupees
calculateGST(amount, gstRate) == MathRoundMulDiv(amount, gstRate, 100)

----------------------------------------------------------------------------
(* TaxService.getQuarterFromDate *)

\* slip: the quarters of the calendar year
getQuarterFromDate_calendar(date) ==
    LET month == getMonth(date) + 1 IN
    IF month >= 1 /\ month <= 3 THEN 1
    ELSE IF month >= 4 /\ month <= 6 THEN 2
    ELSE IF month >= 7 /\ month <= 9 THEN 3
    ELSE 4

getQuarterFromDate(date) ==
    LET month == getMonth(date) + 1 IN
    IF month >= 4 /\ month <= 6 THEN 1
    ELSE IF month >= 7 /\ month <= 9 THEN 2
    ELSE IF month >= 10 /\ month <= 12 THEN 3
    ELSE 4

----------------------------------------------------------------------------
(* Map: a sequence of entries [key, value] in insertion order *)

\* `undefined` and `null`
undefined == <<>>

null == <<"null">>

\* the identifier drawn by the n-th call of randomUUID() for a Map
randomUUID(kind, n) == <<kind, n>>

\* map.has(key)
mapHas(map, key) == \E i \in 1 .. Len(map) : map[i].key = key

\* map.get(key)
mapGet(map, key) ==
    IF mapHas(map, key)
    THEN map[CHOOSE i \in 1 .. Len(map) : map[i].key = key].value
    ELSE undefined

\* map.set(key, value): an existing key keeps its place
mapSet(map, key, value) ==
    IF mapHas(map, key)
    THEN [i \in 1 .. Len(map) |->
              IF map[i].key = key THEN [key |-> key, value |-> value] ELSE map[i]]
    ELSE Append(map, [key |-> key, value |-> value])

\* map.delete(key), the Map afterwards
mapDelete(map, key) == SelectSeq(map, LAMBDA entry : entry.key # key)

\* Array.from(map.values())
mapValues(map) == [i \in 1 .. Len(map) |-> map[i].value]

\* `{ ...record, ...updates }`
spread(record, updates) ==
    [f \in DOMAIN record \cup DOMAIN updates |->
        IF f \in DOMAIN updates THEN updates[f] ELSE record[f]]

\* `record.field ?? fallback`, the field absent or holding a value
orElse(record, field, fallback) ==
    IF field \in DOMAIN record THEN record[field] ELSE fallback

----------------------------------------------------------------------------
(* MemStorage.  Timestamps, file names and free-text fields are left out    *)
(* of the records.                                                          *)

\* `new Map()` for each field
newMemStorage == [documents |-> <<>>, transactions |-> <<>>, taxCalculations |-> <<>>]

\* no identifier drawn yet
noUuids == [documents |-> 0, transactions |-> 0, taxCalculations |-> 0]

\* createDocument: the record built from documentData and the identifier
documentOf(documentData, id) ==
    spread(documentData,
           [id |-> id,
            ocrText |-> orElse(documentData, "ocrText", null),
            processingStatus |-> orElse(documentData, "processingStatus", "pending")])

\* the Maps after createDocument(documentData), id the identifier drawn
createDocument(maps, documentData, id) ==
    [maps EXCEPT !.documents = mapSet(@, id, documentOf(documentData, id))]

getDocument(maps, id) == mapGet(maps.documents, id)

\* slip: the filter left out
getUserDocuments_all(maps, userId) == mapValues(maps.documents)

getUserDocuments(maps, userId) ==
    SelectSeq(mapValues(maps.documents), LAMBDA doc : doc.userId = userId)

\* the Maps after updateDocument(id, updates)
updateDocument(maps, id, updates) ==
    IF ~mapHas(maps.documents, id) THEN maps
    ELSE [maps EXCEPT !.documents =
              mapSet(@, id, spread(mapGet(maps.documents, id), updates))]

\* createTransaction: the record built from transactionData and the identifier
transactionOf(transactionData, id) ==
    spread(transactionData,
           [id |-> id,
            documentId |-> orElse(transactionData, "documentId", null),
            gstRate |-> orElse(transactionData, "gstRate", null),
            gstAmount |-> orElse(transactionData, "gstAmount", null),
            aiExtracted |-> orElse(transactionData, "aiExtracted", null)])

\* the Maps after createTransaction(transactionData), id the identifier drawn
createTransaction(maps, transactionData, id) ==
    [maps EXCEPT !.transactions = mapSet(@, id, transactionOf(transactionData, id))]

getUserTransactions(maps, userId) ==
    SelectSeq(mapValues(maps.transactions), LAMBDA txn : txn.userId = userId)

\* slip: the identifier and the owner of the stored record kept
updateTransaction_keepId(maps, id, updates) ==
    IF ~mapHas(maps.transactions, id) THEN maps
    ELSE [maps EXCEPT !.transactions =
              mapSet(@, id, spread(spread(mapGet(maps.transactions, id), updates),
                                   [id |-> mapGet(maps.transactions, id).id,
                                    userId |-> mapGet(maps.transactions, id).userId]))]

\* the Maps after updateTransaction(id, updates)
updateTransaction(maps, id, updates) ==
    IF ~mapHas(maps.transactions, id) THEN maps
    ELSE [maps EXCEPT !.transactions =
              mapSet(@, id, spread(mapGet(maps.transactions, id), updates))]

\* the Maps after deleteTransaction(id)
deleteTransaction(maps, id) ==
    [maps EXCEPT !.transactions = mapDelete(@, id)]

\* createTaxCalculation: the record built from taxCalcData and the identifier
taxCalculationOf(taxCalcData, id) ==
    spread(taxCalcData,
           [id |-> id,
            section44adaIncome |-> orElse(taxCalcData, "section44adaIncome", null),
            regularTaxableIncome |-> orElse(taxCalcData, "regularTaxableIncome", null),
            section44adaTax |-> orElse(taxCalcData, "section44adaTax", null),
            regularTax |-> orElse(taxCalcData, "regularTax", null)])

\* the Maps after createTaxCalculation(taxCalcData), id the identifier drawn
createTaxCalculation(maps, taxCalcData, id) ==
    [maps EXCEPT !.taxCalculations = mapSet(@, id, taxCalculationOf(taxCalcData, id))]

\* slip: the financial year not compared
getUserTaxCalculations_anyYear(maps, userId, financialYear) ==
    SelectSeq(mapValues(maps.taxCalculations), LAMBDA calc : calc.userId = userId)

\* `!financialYear` holds of undefined and of the empty string
getUserTaxCalculations(maps, userId, financialYear) ==
    SelectSeq(mapValues(maps.taxCalculations),
              LAMBDA calc : /\ calc.userId = userId
                            /\ \/ financialYear = undefined
                               \/ calc.financialYear = financialYear)

\* the Maps after updateTaxCalculation(id, updates)
updateTaxCalculation(maps, id, updates) ==
    IF ~mapHas(maps.taxCalculations, id) THEN maps
    ELSE [maps EXCEPT !.taxCalculations =
              mapSet(@, id, spread(mapGet(maps.taxCalculations, id), updates))]

\* the application before any request
AppIdle ==
    /\ storage = newMemStorage
    /\ uuids = noUuids
    /\ requests = {}
    /\ procs = {}
    /\ response = {}
    /\ page = [manualIncome |-> <<>>,
                hasHealthInsurance |-> FALSE,
                transactions |-> undefined,
                calculationResult |-> {}]

----------------------------------------------------------------------------
(* Inputs *)

\* the dates passed to getQuarterFromDate: three days of every month
ArgDates == [year : Years, month : 1 .. 12, day : {1, 15, 28}]

\* invoice amounts in whole rupees, among them amounts whose tax ends in one
\* half (10 at 5%), and the amount of the worked example
GstAmounts == {5 * a : a \in (0 - MaxGstUnits) .. MaxGstUnits} \cup {25000}

\* GST rates in percent, among them 0, a negative one and one above 100
GstRates == {0 - 5, 0, 5, 12, 18, 28, 100, 150}

\* total incomes in whole rupees: at and above every multiple of IncomeStep,
\* and two negative ones
Incomes ==
    {k * IncomeStep + d * FineStep : k \in 0 .. MaxIncomeSteps, d \in 0 .. MaxFine}
        \cup {0 - IncomeStep, 0 - 1}

\* taxable incomes in 1/FP rupee: around every slab bound, a value whose
\* tax with cess ends in one half (300125 -> 6.5), and values inside the
\* higher slabs
TaxableInputs ==
    {x \in {taxSlabsInitializer[i].min * FP + d :
                i \in 1 .. Len(taxSlabsInitializer),
                d \in (0 - BoundaryWindow) .. BoundaryWindow} :
        x >= 0}
        \cup {300125 * FP, 850000 * FP, 3400000 * FP}

----------------------------------------------------------------------------
(* The state machine: a caller invoking the engine, and the clock *)

Init ==
    /\ clock \in Dates
    /\ service = newTaxService
    /\ returned = {}
    /\ earlier = {}
    /\ incomeTaxEvals = <<>>
    /\ AppIdle

\* taxService.calculateTax(totalIncome, hasHealthInsurance)
CallCalculateTax(totalIncome, hasHealthInsurance) ==
    /\ returned = {}
    /\ returned' = {[op |-> "calculateTax",
                     argc |-> 2,
                     totalIncome |-> totalIncome,
                     hasHealthInsurance |-> hasHealthInsurance,
                     now |-> clock,
                     value |-> calculateTax(totalIncome, hasHealthInsurance, clock)]}
    /\ service' = fieldsAfterCall(service)
    /\ UNCHANGED <<clock, earlier, incomeTaxEvals, appVars>>

\* taxService.calculateTax(totalIncome): the second parameter takes its default
CallCalculateTaxDefault(totalIncome) ==
    /\ returned = {}
    /\ returned' = {[op |-> "calculateTax",
                     argc |-> 1,
                     totalIncome |-> totalIncome,
                     hasHealthInsurance |-> defaultHealthInsurance,
                     now |-> clock,
                     value |-> calculateTax(totalIncome, defaultHealthInsurance, clock)]}
    /\ service' = fieldsAfterCall(service)
    /\ UNCHANGED <<clock, earlier, incomeTaxEvals, appVars>>

\* taxService.getCurrentFinancialYear()
CallGetCurrentFinancialYear ==
    /\ returned = {}
    /\ returned' = {[op |-> "getCurrentFinancialYear",
                     now |-> clock,
                     value |-> getCurrentFinancialYear(clock)]}
    /\ service' = fieldsAfterCall(service)
    /\ UNCHANGED <<clock, earlier, incomeTaxEvals, appVars>>

\* taxService.calculateGST(amount, gstRate)
CallCalculateGST(amount, gstRate) ==
    /\ returned = {}
    /\ returned' = {[op |-> "calculateGST",
                     amount |-> amount,
                     gstRate |-> gstRate,
                     value |-> calculateGST(amount, gstRate)]}
    /\ service' = fieldsAfterCall(service)
    /\ UNCHANGED <<clock, earlier, incomeTaxEvals, appVars>>

\* taxService.getQuarterFromDate(date)
CallGetQuarterFromDate(date) ==
    /\ returned = {}
    /\ returned' = {[op |-> "getQuarterFromDate",
                     date |-> date,
                     value |-> getQuarterFromDate(date)]}
    /\ service' = fieldsAfterCall(service)
    /\ UNCHANGED <<clock, earlier, incomeTaxEvals, appVars>>

\* the caller is done with the returned value
Release ==
    /\ returned # {}
    /\ returned' = {}
    /\ UNCHANGED <<clock, service, earlier, incomeTaxEvals, appVars>>

\* a month passes
Tick ==
    /\ \/ clock.month < 12
       \/ clock.year < LastYear
    /\ clock' = IF clock.month < 12
                THEN [clock EXCEPT !.month = clock.month + 1]
                ELSE [year |-> clock.year + 1, month |-> 1]
    /\ UNCHANGED <<service, returned, earlier, incomeTaxEvals, appVars>>

Next ==
    \/ \E totalIncome \in Incomes, hasHealthInsurance \in BOOLEAN :
           CallCalculateTax(totalIncome, hasHealthInsurance)
    \/ \E totalIncome \in Incomes : CallCalculateTaxDefault(totalIncome)
    \/ CallGetCurrentFinancialYear
    \/ \E amount \in GstAmounts, gstRate \in GstRates : CallCalculateGST(amount, gstRate)
    \/ \E date \in ArgDates : CallGetQuarterFromDate(date)
    \/ Release
    \/ Tick

Spec == Init /\ [][Next]_vars

(* Two calls: the caller keeps the value of one call and compares it with *)
(* the value of a later one.  The clock moves between the calls.          *)

\* the incomes of the compared calls: a negative one, zero, one whose
\* regular tax depends on the health insurance flag, and two higher ones
RepeatIncomes ==
    {0 - 1, 0, 4 * IncomeStep + FineStep, 10 * IncomeStep, MaxIncomeSteps * IncomeStep}

\* the caller keeps the returned value for later
Keep ==
    /\ returned # {}
    /\ earlier' = returned
    /\ returned' = {}
    /\ UNCHANGED <<clock, service, incomeTaxEvals, appVars>>

\* a month passes between two calls
TickIdle ==
    /\ returned = {}
    /\ Tick

NextTwoCalls ==
    \/ \E totalIncome \in RepeatIncomes, hasHealthInsurance \in BOOLEAN :
           CallCalculateTax(totalIncome, hasHealthInsurance)
    \/ \E totalIncome \in RepeatIncomes : CallCalculateTaxDefault(totalIncome)
    \/ CallGetCurrentFinancialYear
    \/ \E amount \in {10, 25000}, gstRate \in {5, 18} : CallCalculateGST(amount, gstRate)
    \/ \E date \in {d \in ArgDates : d.year = FirstYear /\ d.month \in {3, 4} /\ d.day = 15} :
           CallGetQuarterFromDate(date)
    \/ Keep
    \/ Release
    \/ TickIdle

SpecTwoCalls == Init /\ [][NextTwoCalls]_vars

(* The progressive income tax function on its own *)

InitIncomeTax ==
    /\ clock = [year |-> FirstYear, month |-> 1]
    /\ service = newTaxService
    /\ returned = {}
    /\ earlier = {}
    /\ incomeTaxEvals = <<>>
    /\ AppIdle

\* this.calculateIncomeTax(taxableIncome); the last two evaluations are kept
CallCalculateIncomeTax(taxableIncome) ==
    /\ incomeTaxEvals' =
           (IF incomeTaxEvals = <<>> THEN <<>>
            ELSE <<incomeTaxEvals[Len(incomeTaxEvals)]>>)
               \o <<[x |-> taxableIncome, tax |-> calculateIncomeTax(taxableIncome)]>>
    /\ service' = fieldsAfterCall(service)
    /\ UNCHANGED <<clock, returned, earlier, appVars>>

NextIncomeTax == \E taxableIncome \in TaxableInputs : CallCalculateIncomeTax(taxableIncome)

SpecIncomeTax == InitIncomeTax /\ [][NextIncomeTax]_vars

\* the calls of calculateTax whose result is held by the caller
TaxCalls == {c \in returned : c.op = "calculateTax"}

\* the calls of getCurrentFinancialYear whose result is held by the caller
YearCalls == {c \in returned : c.op = "getCurrentFinancialYear"}

\* the calls of calculateGST whose result is held by the caller
GstCalls == {c \in returned : c.op = "calculateGST"}

\* the calls of getQuarterFromDate whose result is held by the caller
QuarterCalls == {c \in returned : c.op = "getQuarterFromDate"}

----------------------------------------------------------------------------
(* Properties of the engine *)

\* the final tax of a result: the tax of its recommended scheme
FinalTax(v) ==
    IF v.recommendedScheme = "section44ada" THEN v.section44adaTax ELSE v.regularTax

\* n is num/den rounded to the nearest integer, halves up (den > 0)
IsRounded(n, num, den) ==
    /\ den * (2 * n - 1) <= 2 * num
    /\ 2 * num < den * (2 * n + 1)

\* a year of four digits as a string
FourDigits(y) ==
    <<DigitChars[((y \div 1000) % 10) + 1], DigitChars[((y \div 100) % 10) + 1],
      DigitChars[((y \div 10) % 10) + 1], DigitChars[(y % 10) + 1]>>

\* the last two digits of n as a string of two characters
TwoDigits(n) == <<DigitChars[((n \div 10) % 10) + 1], DigitChars[(n % 10) + 1]>>

\* n in decimal without leading zeros, for 0 <= n <= 99
Decimal(n) == IF n < 10 THEN <<DigitChars[n + 1]>> ELSE TwoDigits(n)

\* C1: for every totalIncome >= 0 and either flag, the recommended scheme is
\* 'section44ada' exactly when section44adaTax <= regularTax and 'regular'
\* exactly when section44adaTax > regularTax; a tie yields 'section44ada'.
C1_SchemeIsLowerTax ==
    \A c \in TaxCalls :
        c.totalIncome >= 0 =>
            /\ c.value.recommendedScheme \in {"section44ada", "regular"}
            /\ (c.value.recommendedScheme = "section44ada")
                   <=> (c.value.section44adaTax <= c.value.regularTax)
            /\ (c.value.recommendedScheme = "regular")
                   <=> (c.value.section44adaTax > c.value.regularTax)

\* a tie of the two taxes, resolved to section44ada
C1_Witness ==
    \E c \in TaxCalls :
        /\ c.totalIncome >= 0
        /\ c.value.section44adaTax = c.value.regularTax
        /\ c.value.recommendedScheme = "section44ada"

\* the figures of C2 other than the worked example: section44adaIncome is
\* totalIncome * 0.5, section44adaTax is the progressive tax of
\* max(0, totalIncome * 0.5 - 50000), regularTaxableIncome is
\* max(0, totalIncome - totalIncome * 0.10 - 50000 - (flag ? 25000 : 0)),
\* regularTax is its progressive tax, and totalIncome is returned unchanged
FiguresAsComputed(c) ==
    LET I == c.totalIncome
        v == c.value
        \* in tenths of a rupee
        adaTaxable == MathMax(0, 5 * I - 500000)
        regTaxable == MathMax(0, 9 * I - 500000
                                 - (IF c.hasHealthInsurance THEN 250000 ELSE 0))
    IN  /\ v.totalIncome = I
        /\ 2 * v.section44adaIncome = I * FP
        /\ v.incomeTaxArgs[1] = adaTaxable
        /\ v.section44adaTax = calculateIncomeTax(adaTaxable)
        /\ v.regularTaxableIncome = regTaxable
        /\ v.incomeTaxArgs[2] = regTaxable
        /\ v.regularTax = calculateIncomeTax(regTaxable)

\* C2 as stated: for every totalIncome >= 0 and flag the figures are computed
\* as above, and 1000000 without health insurance gives section44adaTax =
\* 5200, regularTax = 36400, 'section44ada', savings = 31200.
C2_AsStated ==
    \A c \in TaxCalls :
        c.totalIncome >= 0 =>
            /\ FiguresAsComputed(c)
            /\ (c.totalIncome = 1000000 /\ ~c.hasHealthInsurance) =>
                   /\ c.value.section44adaTax = 5200
                   /\ c.value.regularTax = 36400
                   /\ c.value.recommendedScheme = "section44ada"
                   /\ c.value.savings = 31200

\* C2 amended: for every totalIncome >= 0 and flag the figures are computed
\* as above, and 1000000 without health insurance gives section44adaTax =
\* 7800 (5% of 450000 - 300000, with cess), regularTax = 36400,
\* 'section44ada', savings = 28600.
C2_TaxFigures ==
    \A c \in TaxCalls :
        c.totalIncome >= 0 =>
            /\ FiguresAsComputed(c)
            /\ (c.totalIncome = 1000000 /\ ~c.hasHealthInsurance) =>
                   /\ c.value.section44adaTax = 7800
                   /\ c.value.regularTax = 36400
                   /\ c.value.recommendedScheme = "section44ada"
                   /\ c.value.savings = 28600

\* the worked example: 1000000 without health insurance
C2_Witness ==
    \E c \in TaxCalls :
        /\ c.totalIncome = 1000000
        /\ ~c.hasHealthInsurance
        /\ c.value.section44adaIncome = 500000 * FP
        /\ c.value.incomeTaxArgs = <<450000 * FP, 850000 * FP>>
        /\ c.value.section44adaTax = 7800
        /\ c.value.regularTax = 36400
        /\ c.value.savings = 28600

\* the share of one bounded slab, in 1/(FP*100) rupee, for x in 1/FP rupee
SlabShare(x, lowerBound, upperBound, rate) ==
    IF x > lowerBound * FP
    THEN rate * ((IF x < upperBound * FP THEN x ELSE upperBound * FP) - lowerBound * FP)
    ELSE 0

\* the share of the unbounded slab
TopSlabShare(x, lowerBound, rate) ==
    IF x > lowerBound * FP THEN rate * (x - lowerBound * FP) ELSE 0

\* S of C3, in 1/(FP*100) rupee
SlabSum(x) ==
    SlabShare(x, 0, 300000, 0) + SlabShare(x, 300000, 700000, 5)
        + SlabShare(x, 700000, 1000000, 10) + SlabShare(x, 1000000, 1200000, 15)
        + SlabShare(x, 1200000, 1500000, 20) + TopSlabShare(x, 1500000, 30)

\* C3: for every taxable income x >= 0, calculateIncomeTax(x) is
\* round(1.04 * S), S the sum over the six slabs of (rate/100) *
\* (min(x, upperBound) - lowerBound) for the slabs with x > lowerBound,
\* rounded to the nearest integer with halves up.
\* 1.04 * S = 13 * sum / 12500 with sum = q * 12500 + r, so the result less
\* 13 * q is 13 * r / 12500 rounded.
C3_IncomeTaxIsRoundedSlabSum ==
    \A i \in 1 .. Len(incomeTaxEvals) :
        LET e == incomeTaxEvals[i]
            sum == SlabSum(e.x)
        IN  e.x >= 0 =>
                IsRounded(e.tax - 13 * (sum \div 12500), 13 * (sum % 12500), 12500)

\* taxable income 300125: slab tax 6.25, 6.5 with cess, rounded up to 7;
\* and an income in the fourth slab
C3_Witness ==
    /\ Len(incomeTaxEvals) = 2
    /\ incomeTaxEvals[1] = [x |-> 300125 * FP, tax |-> 7]
    /\ incomeTaxEvals[2].x = 1000000 * FP + 1
    /\ incomeTaxEvals[2].tax = 52000

\* C4: the schedule is exactly four payments, quarters 1, 2, 3, 4 in this
\* order, percentages 15, 45, 75, 100, amounts round(t * 0.15),
\* round(t * 0.45), round(t * 0.75) and t itself, t the annual tax;
\* for t = 36400 the amounts are 5460, 16380, 27300, 36400.
C4_ScheduleShape ==
    \A c \in TaxCalls :
        c.totalIncome >= 0 =>
            LET t == FinalTax(c.value)
                s == c.value.advanceTaxSchedule
            IN  /\ t >= 0
                /\ Len(s) = 4
                /\ \A q \in 1 .. 4 : s[q].quarter = q
                /\ <<s[1].percentage, s[2].percentage, s[3].percentage, s[4].percentage>>
                       = <<15, 45, 75, 100>>
                /\ IsRounded(s[1].amount, 15 * t, 100)
                /\ IsRounded(s[2].amount, 45 * t, 100)
                /\ IsRounded(s[3].amount, 75 * t, 100)
                /\ s[4].amount = t
                /\ t = 36400 =>
                       <<s[1].amount, s[2].amount, s[3].amount, s[4].amount>>
                           = <<5460, 16380, 27300, 36400>>

\* the schedule of an annual tax of 36400
C4_Witness ==
    \E c \in TaxCalls :
        /\ c.totalIncome >= 0
        /\ FinalTax(c.value) = 36400
        /\ c.value.advanceTaxSchedule[1].amount = 5460
        /\ c.value.advanceTaxSchedule[4].amount = 36400

\* C5: the schedule amounts are non-decreasing from quarter 1 to quarter 4
\* and the amount of quarter 4 is min(section44adaTax, regularTax).
C5_ScheduleNonDecreasing ==
    \A c \in TaxCalls :
        c.totalIncome >= 0 =>
            LET s == c.value.advanceTaxSchedule IN
            /\ s[1].amount <= s[2].amount
            /\ s[2].amount <= s[3].amount
            /\ s[3].amount <= s[4].amount
            /\ s[4].amount = MathMin(c.value.section44adaTax, c.value.regularTax)

\* a schedule of a positive tax where the two schemes differ
C5_Witness ==
    \E c \in TaxCalls :
        /\ c.totalIncome >= 0
        /\ c.value.section44adaTax > 0
        /\ c.value.section44adaTax < c.value.regularTax
        /\ c.value.advanceTaxSchedule[1].amount < c.value.advanceTaxSchedule[4].amount
        /\ c.value.advanceTaxSchedule[4].amount = c.value.section44adaTax

\* C6: savings = |section44adaTax - regularTax| and savings >= 0.
C6_SavingsIsAbsoluteDifference ==
    \A c \in TaxCalls :
        LET v == c.value IN
        /\ v.savings >= 0
        /\ v.section44adaTax >= v.regularTax => v.savings = v.section44adaTax - v.regularTax
        /\ v.section44adaTax <= v.regularTax => v.savings = v.regularTax - v.section44adaTax

\* a result whose section44adaTax is below its regularTax
C6_Witness ==
    \E c \in TaxCalls :
        /\ c.value.section44adaTax < c.value.regularTax
        /\ c.value.savings > 0

\* C7: for all totalIncome >= 0 and either flag, section44adaTax >= 0 and
\* regularTax >= 0.
C7_TaxesNonNegative ==
    \A c \in TaxCalls :
        c.totalIncome >= 0 =>
            /\ c.value.section44adaTax >= 0
            /\ c.value.regularTax >= 0

\* a result with no presumptive tax and a positive regular tax
C7_Witness ==
    \E c \in TaxCalls :
        /\ c.totalIncome >= 0
        /\ c.value.section44adaTax = 0
        /\ c.value.regularTax > 0

\* C8: calculateIncomeTax is monotonically non-decreasing: for all taxable
\* incomes 0 <= x <= y, calculateIncomeTax(x) <= calculateIncomeTax(y),
\* across every slab bound.
C8_IncomeTaxMonotone ==
    \A i, j \in 1 .. Len(incomeTaxEvals) :
        (0 <= incomeTaxEvals[i].x /\ incomeTaxEvals[i].x <= incomeTaxEvals[j].x)
            => incomeTaxEvals[i].tax <= incomeTaxEvals[j].tax

\* two evaluations on the two sides of the bound 700000, just below and just
\* above it
C8_Witness ==
    /\ Len(incomeTaxEvals) = 2
    /\ incomeTaxEvals[1].x = 700000 * FP - 1
    /\ incomeTaxEvals[2].x = 700000 * FP + 1
    /\ incomeTaxEvals[1].tax <= incomeTaxEvals[2].tax

\* C9: the due dates are Y-06-15, Y-09-15, Y-12-15 and (Y+1)-03-15, Y the
\* calendar year of the clock when calculateTax is invoked, for every month
\* of invocation and whatever the tax amount.
C9_DueDatesOfCalendarYear ==
    \A c \in TaxCalls :
        LET Y == c.now.year
            s == c.value.advanceTaxSchedule
        IN  /\ s[1].dueDate = FourDigits(Y) \o <<"-", "0", "6", "-", "1", "5">>
            /\ s[2].dueDate = FourDigits(Y) \o <<"-", "0", "9", "-", "1", "5">>
            /\ s[3].dueDate = FourDigits(Y) \o <<"-", "1", "2", "-", "1", "5">>
            /\ s[4].dueDate = FourDigits(Y + 1) \o <<"-", "0", "3", "-", "1", "5">>

\* a schedule computed in February, held while the clock has moved on to
\* the next year
C9_Witness ==
    \E c \in TaxCalls :
        /\ c.now.month = 2
        /\ clock.year > c.now.year
        /\ c.value.section44adaTax > 0
        /\ c.value.advanceTaxSchedule[1].dueDate
               = FourDigits(c.now.year) \o <<"-", "0", "6", "-", "1", "5">>

\* C10 as stated: getCurrentFinancialYear returns "Y-s" with s = (Y+1) mod 100
\* when the month is >= 4 and "(Y-1)-s" with s = Y mod 100 in months 1 to 3,
\* also where the value mod 100 is below 10 or is 0.
C10_AsStated ==
    \A c \in YearCalls :
        LET Y == c.now.year IN
        c.value = IF c.now.month >= 4
                  THEN FourDigits(Y) \o <<"-">> \o Decimal((Y + 1) % 100)
                  ELSE FourDigits(Y - 1) \o <<"-">> \o Decimal(Y % 100)

\* C10 amended: the part after the dash is the last two decimal digits of
\* Y+1 (month >= 4) or of Y (months 1 to 3), always two characters, with a
\* leading zero where the value mod 100 is below 10.
C10_TwoDigitSuffix ==
    \A c \in YearCalls :
        LET Y == c.now.year IN
        c.value = IF c.now.month >= 4
                  THEN FourDigits(Y) \o <<"-">> \o TwoDigits(Y + 1)
                  ELSE FourDigits(Y - 1) \o <<"-">> \o TwoDigits(Y)

\* the financial year 2099-00, asked for in April 2099
C10_Witness ==
    \E c \in YearCalls :
        /\ c.now = [year |-> 2099, month |-> 4]
        /\ c.value = <<"2", "0", "9", "9", "-", "0", "0">>

\* C11: getQuarterFromDate maps months 4, 5, 6 to 1, months 7, 8, 9 to 2,
\* months 10, 11, 12 to 3 and months 1, 2, 3 to 4, every month to exactly
\* one quarter, whatever the day and the year of the date.
C11_FiscalQuarterOfMonth ==
    \A c \in QuarterCalls :
        /\ c.value \in 1 .. 4
        /\ c.value = 1 <=> c.date.month \in {4, 5, 6}
        /\ c.value = 2 <=> c.date.month \in {7, 8, 9}
        /\ c.value = 3 <=> c.date.month \in {10, 11, 12}
        /\ c.value = 4 <=> c.date.month \in {1, 2, 3}

\* the 28th of March of the last year is in quarter 4
C11_Witness ==
    \E c \in QuarterCalls :
        /\ c.date = [year |-> LastYear, month |-> 3, day |-> 28]
        /\ c.value = 4

\* C12: calculateGST(amount, rate) is round(amount * rate / 100) for every
\* amount and rate, the rate taken as given (0, above 100 or negative);
\* calculateGST(25000, 18) = 4500.
C12_GstIsRoundedShare ==
    \A c \in GstCalls :
        /\ IsRounded(c.value, c.amount * c.gstRate, 100)
        /\ (c.amount = 25000 /\ c.gstRate = 18) => c.value = 4500

\* a rate above 100, taken as given: 150% of 20
C12_Witness ==
    \E c \in GstCalls :
        /\ c.amount = 20
        /\ c.gstRate = 150
        /\ c.value = 30

\* C13: calculateTax(0), with or without health insurance, yields
\* section44adaTax = 0, regularTax = 0, recommendedScheme = 'section44ada',
\* savings = 0 and a schedule whose four amounts are all 0.
C13_ZeroIncome ==
    \A c \in TaxCalls :
        c.totalIncome = 0 =>
            /\ c.value.section44adaTax = 0
            /\ c.value.regularTax = 0
            /\ c.value.recommendedScheme = "section44ada"
            /\ c.value.savings = 0
            /\ Len(c.value.advanceTaxSchedule) = 4
            /\ \A q \in 1 .. 4 : c.value.advanceTaxSchedule[q].amount = 0

\* calculateTax(0, true)
C13_Witness ==
    \E c \in TaxCalls :
        /\ c.totalIncome = 0
        /\ c.argc = 2
        /\ c.hasHealthInsurance
        /\ c.value.regularTaxableIncome = 0
        /\ c.value.savings = 0

\* the tax before cess, in whole rupees, of the full width of the slabs
\* before slab i
RECURSIVE TaxOfSlabsBelow(_)
TaxOfSlabsBelow(i) ==
    IF i <= 1 THEN 0
    ELSE TaxOfSlabsBelow(i - 1)
             + ((taxSlabs[i - 1].max - taxSlabs[i - 1].min) * taxSlabs[i - 1].rate) \div 100

\* C14: calculateIncomeTax(300000) = 0 and calculateIncomeTax(700000) = 20800,
\* and at every slab bound b the income b is taxed by the slabs below b
\* alone: the slab that starts at b adds nothing.
C14_SlabBoundsExact ==
    \A k \in 1 .. Len(incomeTaxEvals) :
        LET e == incomeTaxEvals[k] IN
        /\ e.x = 300000 * FP => e.tax = 0
        /\ e.x = 700000 * FP => e.tax = 20800
        /\ \A i \in 1 .. Len(taxSlabs) :
               e.x = taxSlabs[i].min * FP =>
                   IsRounded(e.tax, 104 * TaxOfSlabsBelow(i), 100)

\* the bounds 700000 and 1000000: 20800, and 50000 with cess
C14_Witness ==
    /\ Len(incomeTaxEvals) = 2
    /\ incomeTaxEvals[1] = [x |-> 700000 * FP, tax |-> 20800]
    /\ incomeTaxEvals[2] = [x |-> 1000000 * FP, tax |-> 52000]

\* C15: the slab table is (0-300000 at 0%), (300000-700000 at 5%),
\* (700000-1000000 at 10%), (1000000-1200000 at 15%), (1200000-1500000 at
\* 20%), (1500000-unbounded at 30%); it is contiguous, non-overlapping,
\* sorted ascending by lower bound, starts at 0 and ends unbounded.
C15_SlabTable ==
    LET t == service.taxSlabs IN
    /\ Len(t) = 6
    /\ <<t[1].min, t[2].min, t[3].min, t[4].min, t[5].min, t[6].min>>
           = <<0, 300000, 700000, 1000000, 1200000, 1500000>>
    /\ <<t[1].max, t[2].max, t[3].max, t[4].max, t[5].max>>
           = <<300000, 700000, 1000000, 1200000, 1500000>>
    /\ <<t[1].rate, t[2].rate, t[3].rate, t[4].rate, t[5].rate, t[6].rate>>
           = <<0, 5, 10, 15, 20, 30>>
    /\ \A i \in 1 .. Len(t) - 1 :
           /\ t[i].max = t[i + 1].min
           /\ t[i].min < t[i].max
           /\ t[i].min < t[i + 1].min
    /\ t[1].min = 0
    /\ t[Len(t)].max = Infinity

\* the table as a call that reached the unbounded slab has left it
C15_Witness ==
    /\ \E c \in TaxCalls : c.value.incomeTaxArgs[2] > service.taxSlabs[6].min * FP
    /\ service.taxSlabs[5].max = service.taxSlabs[6].min
    /\ service.taxSlabs[6].max = Infinity

\* a call without its value: the method, its arguments and, where it reads
\* the clock, the time
CallOf(c) == [f \in DOMAIN c \ {"value"} |-> c[f]]

\* the schedule without the due dates
WithoutDueDates(schedule) ==
    [q \in 1 .. Len(schedule) |->
        [quarter |-> schedule[q].quarter,
         percentage |-> schedule[q].percentage,
         amount |-> schedule[q].amount,
         description |-> schedule[q].description]]

\* C16: the engine keeps no state between calls: after any earlier calls of
\* calculateTax, calculateGST, getCurrentFinancialYear and getQuarterFromDate,
\* a call with the same inputs at the same clock returns what the earlier
\* such call returned, and no call changes the slab table or the deduction
\* constants.
C16_NoStateBetweenCalls ==
    /\ \A a \in earlier, b \in returned :
           (a.op = b.op /\ CallOf(a) = CallOf(b)) => a.value = b.value
    /\ service.taxSlabs = taxSlabsInitializer
    /\ service.standardDeduction = 50000
    /\ service.healthInsuranceDeduction = 25000

\* the same calculateTax call made twice at the same clock, with a positive
\* tax
C16_Witness ==
    \E a \in earlier, b \in returned :
        /\ a.op = "calculateTax"
        /\ b.op = "calculateTax"
        /\ CallOf(a) = CallOf(b)
        /\ a.value = b.value
        /\ a.value.section44adaTax > 0

\* C17: the clock influences only the due dates: two calls of calculateTax
\* with the same totalIncome and flag made at different times agree on
\* totalIncome, section44adaIncome, regularTaxableIncome, section44adaTax,
\* regularTax, recommendedScheme, savings and on the quarter, percentage,
\* amount and description of every schedule entry.
C17_ClockOnlyInDueDates ==
    \A a \in earlier, b \in returned :
        (/\ a.op = "calculateTax"
         /\ b.op = "calculateTax"
         /\ a.totalIncome = b.totalIncome
         /\ a.hasHealthInsurance = b.hasHealthInsurance
         /\ a.now # b.now)
        => /\ a.value.totalIncome = b.value.totalIncome
           /\ a.value.section44adaIncome = b.value.section44adaIncome
           /\ a.value.regularTaxableIncome = b.value.regularTaxableIncome
           /\ a.value.section44adaTax = b.value.section44adaTax
           /\ a.value.regularTax = b.value.regularTax
           /\ a.value.recommendedScheme = b.value.recommendedScheme
           /\ a.value.savings = b.value.savings
           /\ WithoutDueDates(a.value.advanceTaxSchedule)
                  = WithoutDueDates(b.value.advanceTaxSchedule)

\* the same income taxed in June of one year and in October of the next:
\* other due dates, the same amounts
C17_Witness ==
    \E a \in earlier, b \in returned :
        /\ a.op = "calculateTax"
        /\ b.op = "calculateTax"
        /\ a.totalIncome = b.totalIncome
        /\ a.hasHealthInsurance = b.hasHealthInsurance
        /\ a.now.month = 6
        /\ b.now.month = 10
        /\ b.now.year = a.now.year + 1
        /\ a.value.section44adaTax > 0
        /\ a.value.advanceTaxSchedule[1].dueDate # b.value.advanceTaxSchedule[1].dueDate
        /\ a.value.advanceTaxSchedule[1].amount = b.value.advanceTaxSchedule[1].amount

\* C18: hasHealthInsurance defaults to false (calculateTax(I) returns what
\* calculateTax(I, false) returns) and affects the regular path only: for
\* every totalIncome >= 0, section44adaIncome and section44adaTax are the
\* same for both flag values and regularTax with the flag is <= regularTax
\* without it.
C18_FlagDefaultAndEffect ==
    \A a \in earlier, b \in returned :
        (/\ a.op = "calculateTax"
         /\ b.op = "calculateTax"
         /\ a.totalIncome = b.totalIncome)
        => /\ (a.argc = 1 /\ b.argc = 2 /\ ~b.hasHealthInsurance /\ a.now = b.now)
                  => a.value = b.value
           /\ (a.argc = 2 /\ b.argc = 1 /\ ~a.hasHealthInsurance /\ a.now = b.now)
                  => a.value = b.value
           /\ a.totalIncome >= 0 =>
                  /\ a.value.section44adaIncome = b.value.section44adaIncome
                  /\ a.value.section44adaTax = b.value.section44adaTax
                  /\ (a.argc = 2 /\ a.hasHealthInsurance /\ b.argc = 2 /\ ~b.hasHealthInsurance)
                         => a.value.regularTax <= b.value.regularTax
                  /\ (a.argc = 2 /\ ~a.hasHealthInsurance /\ b.argc = 2 /\ b.hasHealthInsurance)
                         => a.value.regularTax >= b.value.regularTax

\* calculateTax(I) after calculateTax(I, false), for an income whose regular
\* tax is positive without the deduction and 0 with it
C18_Witness ==
    \E a \in earlier, b \in returned :
        /\ a.op = "calculateTax"
        /\ b.op = "calculateTax"
        /\ a.totalIncome = b.totalIncome
        /\ a.now = b.now
        /\ a.argc = 2
        /\ ~a.hasHealthInsurance
        /\ b.argc = 1
        /\ b.value = a.value
        /\ b.value.regularTax > 0
        /\ calculateTax(b.totalIncome, TRUE, b.now).regularTax = 0

\* the fields of a TaxCalculationResult
ResultFields ==
    {"totalIncome", "section44adaIncome", "regularTaxableIncome", "section44adaTax",
     "regularTax", "recommendedScheme", "savings", "advanceTaxSchedule"}

\* C19: calculateTax returns a complete result record for every numeric
\* totalIncome, negative ones too; for a negative totalIncome both taxes are
\* 0, the recommended scheme is 'section44ada' and savings is 0.
C19_NegativeIncome ==
    \A c \in TaxCalls :
        /\ ResultFields \subseteq DOMAIN c.value
        /\ Len(c.value.advanceTaxSchedule) = 4
        /\ c.totalIncome < 0 =>
               /\ c.value.section44adaTax = 0
               /\ c.value.regularTax = 0
               /\ c.value.recommendedScheme = "section44ada"
               /\ c.value.savings = 0

\* the result for an income of -IncomeStep
C19_Witness ==
    \E c \in TaxCalls :
        /\ c.totalIncome = 0 - IncomeStep
        /\ c.value.section44adaIncome < 0
        /\ c.value.section44adaTax = 0
        /\ c.value.recommendedScheme = "section44ada"

\* C20: every call of calculateIncomeTax made by calculateTax receives an
\* argument >= 0, for every totalIncome (positive, zero or negative) and
\* either flag value.
C20_IncomeTaxArgsNonNegative ==
    \A c \in TaxCalls :
        /\ Len(c.value.incomeTaxArgs) = 2
        /\ c.value.incomeTaxArgs[1] >= 0
        /\ c.value.incomeTaxArgs[2] >= 0

\* a negative income, clamped to 0 on both paths
C20_Witness ==
    \E c \in TaxCalls :
        /\ c.totalIncome < 0
        /\ c.hasHealthInsurance
        /\ c.value.incomeTaxArgs = <<0, 0>>

----------------------------------------------------------------------------
(* Dates read back from the schedule: `new Date(payment.dueDate)` *)

\* the value of a digit character
digitValue(ch) == CHOOSE d \in 0 .. 9 : DigitChars[d + 1] = ch

\* the number written by a sequence of digit characters
RECURSIVE parseDigits(_)
parseDigits(s) ==
    IF Len(s) = 0 THEN 0
    ELSE 10 * parseDigits(SubSeq(s, 1, Len(s) - 1)) + digitValue(s[Len(s)])

\* `new Date("YYYY-MM-DD")`
newDate(s) ==
    [year |-> parseDigits(SubSeq(s, 1, 4)),
     month |-> parseDigits(SubSeq(s, 6, 7)),
     day |-> parseDigits(SubSeq(s, 9, 10))]

\* the months from year 0 to the month of a date
monthIndex(date) == date.year * 12 + (date.month - 1)

\* `new Date(payment.dueDate) > new Date()`, the due date lying in another
\* month than the clock's
isAfter(date, now) == monthIndex(date) > monthIndex(now)

\* a date of an earlier month than the clock's
InThePast(date, now) == monthIndex(date) < monthIndex(now)

\* C21 as stated: for a calculation run in January to March of calendar year
\* Y, the Q1 to Q3 due dates lie in year Y and are in the past at the time of
\* the calculation, and the Q4 due date lies in year Y+1.
C21_AsStated ==
    \A c \in TaxCalls :
        c.now.month \in 1 .. 3 =>
            LET s == c.value.advanceTaxSchedule IN
            /\ \A i \in 1 .. 3 :
                   /\ newDate(s[i].dueDate).year = c.now.year
                   /\ InThePast(newDate(s[i].dueDate), c.now)
            /\ newDate(s[4].dueDate).year = c.now.year + 1

\* C21: for a calculation run in January to March of calendar year Y, the Q1
\* to Q3 due dates lie in year Y, in June, September and December, each
\* later than the time of the calculation, and the Q4 due date lies in March
\* of year Y+1.
C21_DueDatesAhead ==
    \A c \in TaxCalls :
        c.now.month \in 1 .. 3 =>
            LET s == c.value.advanceTaxSchedule IN
            /\ \A i \in 1 .. 3 :
                   /\ newDate(s[i].dueDate).year = c.now.year
                   /\ newDate(s[i].dueDate).month = 3 + 3 * i
                   /\ newDate(s[i].dueDate).day = 15
                   /\ isAfter(newDate(s[i].dueDate), c.now)
            /\ newDate(s[4].dueDate) = [year |-> c.now.year + 1, month |-> 3, day |-> 15]
            /\ isAfter(newDate(s[4].dueDate), c.now)

\* a schedule with a tax to pay, computed in March and still held by the
\* caller in that month
C21_Witness ==
    \E c \in TaxCalls :
        /\ c.now.month = 3
        /\ clock = c.now
        /\ c.value.advanceTaxSchedule[4].amount > 0
        /\ isAfter(newDate(c.value.advanceTaxSchedule[1].dueDate), clock)

\* C24: for every totalIncome >= 0 and either flag value the presumptive
\* tax is at most the regular tax, the recommended scheme is "section44ada",
\* savings is regularTax - section44adaTax, and the schedule is built from
\* section44adaTax.
C24_PresumptiveNeverDearer ==
    \A c \in TaxCalls :
        c.totalIncome >= 0 =>
            LET v == c.value IN
            /\ v.section44adaTax <= v.regularTax
            /\ v.recommendedScheme = "section44ada"
            /\ v.recommendedScheme # "regular"
            /\ v.savings = v.regularTax - v.section44adaTax
            /\ v.advanceTaxSchedule[4].amount = v.section44adaTax
            /\ \A i \in 1 .. 3 :
                   IsRounded(v.advanceTaxSchedule[i].amount,
                             v.section44adaTax * v.advanceTaxSchedule[i].percentage, 100)

\* a result computed with health insurance whose presumptive tax is positive
\* and below the regular tax
C24_Witness ==
    \E c \in TaxCalls :
        /\ c.totalIncome >= 0
        /\ c.hasHealthInsurance
        /\ c.value.section44adaTax > 0
        /\ c.value.section44adaTax < c.value.regularTax
        /\ c.value.advanceTaxSchedule[4].amount = c.value.section44adaTax

----------------------------------------------------------------------------
(* The upload route and the background processing of documents *)

\* the most documents uploaded, and the most transaction identifiers drawn
MaxDocuments == 2

MaxTransactions == 2

\* the authenticated users: `req.user.claims.sub`
Users == {"A", "B"}

applicationPdf == <<"a", "p", "p", "l", "i", "c", "a", "t", "i", "o", "n", "/", "p", "d", "f">>

imageJpeg == <<"i", "m", "a", "g", "e", "/", "j", "p", "e", "g">>

imageJpg == <<"i", "m", "a", "g", "e", "/", "j", "p", "g">>

imagePng == <<"i", "m", "a", "g", "e", "/", "p", "n", "g">>

imageTiff == <<"i", "m", "a", "g", "e", "/", "t", "i", "f", "f">>

imageTif == <<"i", "m", "a", "g", "e", "/", "t", "i", "f">>

textPlain == <<"t", "e", "x", "t", "/", "p", "l", "a", "i", "n">>

imageGif == <<"i", "m", "a", "g", "e", "/", "g", "i", "f">>

\* slip: a text type among the allowed types
allowedMimeTypes_text ==
    {applicationPdf, imageJpeg, imageJpg, imagePng, imageTiff, imageTif, textPlain}

\* the array of the file filter
allowedMimeTypes == {applicationPdf, imageJpeg, imageJpg, imagePng, imageTiff, imageTif}

\* `allowedMimeTypes.includes(file.mimetype)`
fileFilter(file) == file.mimetype \in allowedMimeTypes

\* s.startsWith(prefix)
startsWith(s, prefix) ==
    /\ Len(s) >= Len(prefix)
    /\ SubSeq(s, 1, Len(prefix)) = prefix

\* the branch extractTextFromFile takes
extractionOf(mimeType) ==
    IF mimeType = applicationPdf THEN "extractFromPDF"
    ELSE IF startsWith(mimeType, <<"i", "m", "a", "g", "e", "/">>) THEN "extractFromImage"
    ELSE "Unsupported file type"

\* the files a request carries: none, the allowed types and two others
Files ==
    {undefined} \cup
    {[mimetype |-> m] : m \in allowedMimeTypes_text \cup {imageGif}}

\* the texts OCR returns
OcrTexts == {<<"t">>}

\* the invoice data the AI service returns: amount and GST percentage
InvoiceData == {[amount |-> 25000, gst |-> 18], [amount |-> 10, gst |-> 5]}

\* the transaction identifiers a request may carry
TransactionIds == {randomUUID("transactions", n) : n \in 1 .. MaxTransactions}

\* the request of a user suspended at an await
requestOf(user) == {q \in requests : q.user = user}

\* POST /api/documents/upload up to `await storage.createDocument(...)`
UploadFile(user, file) ==
    /\ response = {}
    /\ requestOf(user) = {}
    /\ uuids.documents < MaxDocuments
    /\ IF file = undefined
       THEN /\ response' = {[op |-> "upload", user |-> user, status |-> 400]}
            /\ UNCHANGED <<storage, uuids, requests>>
       ELSE IF ~fileFilter(file)
       THEN /\ response' = {[op |-> "upload", user |-> user, status |-> 500]}
            /\ UNCHANGED <<storage, uuids, requests>>
       ELSE LET id == randomUUID("documents", uuids.documents + 1) IN
            /\ storage' = createDocument(storage,
                                         [userId |-> user,
                                          mimeType |-> file.mimetype,
                                          processingStatus |-> "pending"],
                                         id)
            /\ uuids' = [uuids EXCEPT !.documents = @ + 1]
            /\ requests' = requests \cup {[op |-> "upload", user |-> user, documentId |-> id]}
            /\ UNCHANGED response
    /\ UNCHANGED <<clock, service, returned, earlier, incomeTaxEvals, procs, page>>

\* the rest of the upload handler: processDocumentAsync(document.id) runs to
\* its first await, then the response is sent
UploadStarted(user) ==
    /\ response = {}
    /\ \E q \in requestOf(user) :
        /\ q.op = "upload"
        /\ storage' = updateDocument(storage, q.documentId, [processingStatus |-> "processing"])
        /\ procs' = procs \cup {[documentId |-> q.documentId,
                                 pc |-> "getDocument",
                                 document |-> undefined,
                                 invoiceData |-> undefined,
                                 created |-> {},
                                 error |-> ""]}
        /\ requests' = requests \ {q}
        /\ response' = {[op |-> "upload", user |-> user, status |-> 200,
                         documentId |-> q.documentId]}
    /\ UNCHANGED <<clock, service, returned, earlier, incomeTaxEvals, uuids, page>>

\* the run p with some of its fields changed; `error` is the message the
\* catch block logs, empty while nothing was caught
procAfter(p, changes) == (procs \ {p}) \cup {spread(p, changes)}

\* processDocumentAsync: `document = await storage.getDocument(documentId)`,
\* `if (!document) return`, and the call of extractTextFromFile
ProcGetDocument(p) ==
    /\ response = {}
    /\ p.pc = "getDocument"
    /\ LET document == getDocument(storage, p.documentId) IN
       procs' = IF ~mapHas(storage.documents, p.documentId)
                THEN procAfter(p, [pc |-> "returned"])
                ELSE procAfter(p, [pc |-> "extractText", document |-> document])
    /\ UNCHANGED <<clock, service, returned, earlier, incomeTaxEvals,
                   storage, uuids, requests, response, page>>

\* extractTextFromFile returns: `updateDocument(documentId, { ocrText })`, and
\* the call of parseInvoiceText
OcrReturns(p, ocrText) ==
    /\ response = {}
    /\ p.pc = "extractText"
    /\ extractionOf(p.document.mimeType) # "Unsupported file type"
    /\ storage' = updateDocument(storage, p.documentId, [ocrText |-> ocrText])
    /\ procs' = procAfter(p, [pc |-> "parseInvoice"])
    /\ UNCHANGED <<clock, service, returned, earlier, incomeTaxEvals,
                   uuids, requests, response, page>>

\* extractTextFromFile throws: the catch block
OcrThrows(p) ==
    /\ response = {}
    /\ p.pc = "extractText"
    /\ storage' = updateDocument(storage, p.documentId, [processingStatus |-> "failed"])
    /\ procs' = procAfter(p, [pc |-> "returned",
                              error |-> IF extractionOf(p.document.mimeType)
                                               = "Unsupported file type"
                                        THEN "Unsupported file type"
                                        ELSE "OCR extraction failed"])
    /\ UNCHANGED <<clock, service, returned, earlier, incomeTaxEvals,
                   uuids, requests, response, page>>

\* slip: the transaction not linked to the document
extractedTransaction_unlinked(document, invoiceData) ==
    [userId |-> document.userId,
     documentId |-> null,
     amount |-> toString(invoiceData.amount),
     gstRate |-> toString(invoiceData.gst),
     gstAmount |-> toString(calculateGST(invoiceData.amount, invoiceData.gst)),
     aiExtracted |-> TRUE]

\* the transaction data processDocumentAsync builds
extractedTransaction(document, invoiceData) ==
    [userId |-> document.userId,
     documentId |-> document.id,
     amount |-> toString(invoiceData.amount),
     gstRate |-> toString(invoiceData.gst),
     gstAmount |-> toString(calculateGST(invoiceData.amount, invoiceData.gst)),
     aiExtracted |-> TRUE]

\* parseInvoiceText returns: `await storage.createTransaction({...})`
AiReturns(p, invoiceData) ==
    /\ response = {}
    /\ p.pc = "parseInvoice"
    /\ LET id == randomUUID("transactions", uuids.transactions + 1) IN
       /\ storage' = createTransaction(storage,
                                       extractedTransaction(p.document, invoiceData), id)
       /\ procs' = procAfter(p, [pc |-> "complete",
                                 invoiceData |-> invoiceData,
                                 created |-> p.created \cup {id}])
    /\ uuids' = [uuids EXCEPT !.transactions = @ + 1]
    /\ service' = fieldsAfterCall(service)
    /\ UNCHANGED <<clock, returned, earlier, incomeTaxEvals, requests, response, page>>

\* parseInvoiceText throws: the catch block
AiThrows(p) ==
    /\ response = {}
    /\ p.pc = "parseInvoice"
    /\ storage' = updateDocument(storage, p.documentId, [processingStatus |-> "failed"])
    /\ procs' = procAfter(p, [pc |-> "returned", error |-> "AI parsing failed"])
    /\ UNCHANGED <<clock, service, returned, earlier, incomeTaxEvals,
                   uuids, requests, response, page>>

\* slip: the status written last is "failed"
completedStatus_failed == "failed"

completedStatus == "completed"

\* `updateDocument(documentId, { processingStatus: "completed" })`
ProcComplete(p) ==
    /\ response = {}
    /\ p.pc = "complete"
    /\ storage' = updateDocument(storage, p.documentId, [processingStatus |-> completedStatus])
    /\ procs' = procAfter(p, [pc |-> "returned"])
    /\ UNCHANGED <<clock, service, returned, earlier, incomeTaxEvals,
                   uuids, requests, response, page>>

\* the steps of the run p
ProcStep(p) ==
    \/ ProcGetDocument(p)
    \/ \E ocrText \in OcrTexts : OcrReturns(p, ocrText)
    \/ OcrThrows(p)
    \/ \E invoiceData \in InvoiceData : AiReturns(p, invoiceData)
    \/ AiThrows(p)
    \/ ProcComplete(p)

\* the response has gone out
ResponseSent ==
    /\ response # {}
    /\ response' = {}
    /\ UNCHANGED <<clock, service, returned, earlier, incomeTaxEvals,
                   storage, uuids, requests, procs, page>>

----------------------------------------------------------------------------
(* PATCH and DELETE /api/transactions/:id *)

\* slip: a transaction of another user is reported as not found
mayTouch_ownerOnly(user, transaction) == transaction.userId = user

\* the handlers look at `req.params.id` only, never at `req.user`
mayTouch(user, transaction) == TRUE

\* PATCH /api/transactions/:id with body `req.body`; `before` is the record
\* stored under the identifier when the request arrived
RoutePatchTransaction(user, id, body) ==
    /\ response = {}
    /\ LET before == mapGet(storage.transactions, id)
           found == mapHas(storage.transactions, id) /\ mayTouch(user, before)
       IN
       /\ storage' = IF found THEN updateTransaction(storage, id, body) ELSE storage
       /\ response' = {[op |-> "patch", user |-> user, id |-> id, body |-> body,
                        before |-> before,
                        status |-> IF found THEN 200 ELSE 404,
                        value |-> IF found
                                  THEN mapGet(storage'.transactions, id)
                                  ELSE undefined]}
    /\ UNCHANGED <<clock, service, returned, earlier, incomeTaxEvals,
                   uuids, requests, procs, page>>

\* DELETE /api/transactions/:id
RouteDeleteTransaction(user, id) ==
    /\ response = {}
    /\ LET before == mapGet(storage.transactions, id)
           found == mapHas(storage.transactions, id) /\ mayTouch(user, before)
       IN
       /\ storage' = IF found THEN deleteTransaction(storage, id) ELSE storage
       /\ response' = {[op |-> "delete", user |-> user, id |-> id,
                        before |-> before,
                        status |-> IF found THEN 200 ELSE 404]}
    /\ UNCHANGED <<clock, service, returned, earlier, incomeTaxEvals,
                   uuids, requests, procs, page>>

----------------------------------------------------------------------------
(* The document pipeline: uploads, their processing, and the two routes     *)
(* that change or remove the transactions it creates                        *)

\* the bodies the PATCH requests of this specification carry
DocumentPatchBodies == {[aiExtracted |-> FALSE], [gstAmount |-> toString(0)]}

NextDocuments ==
    \/ \E user \in Users, file \in Files : UploadFile(user, file)
    \/ \E user \in Users : UploadStarted(user)
    \/ \E p \in procs : ProcGetDocument(p)
    \/ \E p \in procs, ocrText \in OcrTexts : OcrReturns(p, ocrText)
    \/ \E p \in procs : OcrThrows(p)
    \/ \E p \in procs, invoiceData \in InvoiceData : AiReturns(p, invoiceData)
    \/ \E p \in procs : AiThrows(p)
    \/ \E p \in procs : ProcComplete(p)
    \/ \E user \in Users, id \in TransactionIds, body \in DocumentPatchBodies :
           RoutePatchTransaction(user, id, body)
    \/ \E user \in Users, id \in TransactionIds : RouteDeleteTransaction(user, id)
    \/ ResponseSent

InitDocuments ==
    /\ clock = [year |-> FirstYear, month |-> 1]
    /\ service = newTaxService
    /\ returned = {}
    /\ earlier = {}
    /\ incomeTaxEvals = <<>>
    /\ AppIdle

SpecDocuments == InitDocuments /\ [][NextDocuments]_vars

----------------------------------------------------------------------------
(* The document pipeline under fairness: the event loop runs every          *)
(* continuation that is ready, every response goes out, and every call of   *)
(* the OCR and AI services returns or throws                                *)

\* the files of this specification: one of each branch of extractTextFromFile,
\* and one the filter rejects
ProcessingFiles == {[mimetype |-> m] : m \in {applicationPdf, imagePng, textPlain}}

NextProcessing ==
    \/ \E user \in Users, file \in ProcessingFiles : UploadFile(user, file)
    \/ \E user \in Users : UploadStarted(user)
    \/ \E p \in procs : ProcGetDocument(p)
    \/ \E p \in procs, ocrText \in OcrTexts : OcrReturns(p, ocrText)
    \/ \E p \in procs : OcrThrows(p)
    \/ \E p \in procs, invoiceData \in InvoiceData : AiReturns(p, invoiceData)
    \/ \E p \in procs : AiThrows(p)
    \/ \E p \in procs : ProcComplete(p)
    \/ ResponseSent

\* the identifiers of the documents
DocumentIds == {randomUUID("documents", n) : n \in 1 .. MaxDocuments}

\* A continuation waits only while a response is on its way out, and the
\* event loop takes the ready continuations first in, first out: one that is
\* ready again and again is run.
ProcessingFairness ==
    /\ WF_vars(ResponseSent)
    /\ \A user \in Users : SF_vars(UploadStarted(user))
    /\ \A id \in DocumentIds :
           SF_vars(\E p \in procs : p.documentId = id /\ ProcStep(p))

SpecProcessing == InitDocuments /\ [][NextProcessing]_vars /\ ProcessingFairness

\* the status of a document, "none" while it is not stored
statusOf(maps, id) ==
    IF mapHas(maps.documents, id) THEN mapGet(maps.documents, id).processingStatus
    ELSE "none"

\* the runs of processDocumentAsync for a document
runsOf(runs, id) == {p \in runs : p.documentId = id}

\* C25: the status of a document goes pending -> processing -> (completed |
\* failed) and nowhere else: "processing" is written when processDocumentAsync
\* starts, "completed" by a run that has created its transaction and caught
\* nothing, "failed" by a run that caught an error of OCR or AI parsing and
\* created no transaction; a status of completed or failed never changes; and
\* under fairness every stored document reaches completed or failed, also
\* with two documents in processing at once.
C25_StatusLifecycle ==
    /\ [][\A id \in DocumentIds :
            LET old == statusOf(storage, id)
                new == statusOf(storage', id)
            IN  /\ old # new =>
                     \/ old = "none" /\ new = "pending"
                     \/ old = "pending" /\ new = "processing"
                     \/ old = "processing" /\ new \in {"completed", "failed"}
                /\ old # new /\ new = "processing" =>
                     /\ runsOf(procs, id) = {}
                     /\ Cardinality(runsOf(procs', id)) = 1
                /\ old # new /\ new = "completed" =>
                     \A p \in runsOf(procs', id) :
                         Cardinality(p.created) = 1 /\ p.error = ""
                /\ old # new /\ new = "failed" =>
                     \A p \in runsOf(procs', id) :
                         p.created = {} /\ p.error # ""
                /\ old \in {"completed", "failed"} => new = old]_vars
    /\ \A id \in DocumentIds :
           (statusOf(storage, id) # "none")
               ~> (statusOf(storage, id) \in {"completed", "failed"})

\* two documents were in processing at once; one is completed, the other
\* failed
C25_Witness ==
    \E id1, id2 \in DocumentIds :
        /\ statusOf(storage, id1) = "completed"
        /\ statusOf(storage, id2) = "failed"
        /\ \E p \in runsOf(procs, id2) : p.error = "AI parsing failed"
        /\ \E p \in runsOf(procs, id1) : p.created # {}

\* the stored transactions among those a run of processDocumentAsync created
storedOf(maps, p) == {t \in p.created : mapHas(maps.transactions, t)}

\* the transaction is the one processing builds from the document and the
\* extracted data
AsExtracted(txn, document, invoiceData) ==
    /\ txn.documentId = document.id
    /\ txn.userId = document.userId
    /\ txn.aiExtracted = TRUE
    /\ parseDigits(txn.amount) = invoiceData.amount
    /\ parseDigits(txn.gstRate) = invoiceData.gst
    /\ parseDigits(txn.gstAmount) = calculateGST(invoiceData.amount, invoiceData.gst)

\* C26 as stated: in every reachable state a completed document has exactly
\* one stored transaction created by its processing, linked to the document
\* and its user, with aiExtracted = true and gstAmount = calculateGST(amount,
\* rate) of the extracted data; a failed document has none.
C26_AsStated ==
    \A id \in DocumentIds : \A p \in runsOf(procs, id) :
        /\ statusOf(storage, id) = "completed" =>
               /\ Cardinality(storedOf(storage, p)) = 1
               /\ \A t \in storedOf(storage, p) :
                      AsExtracted(mapGet(storage.transactions, t),
                                  getDocument(storage, id), p.invoiceData)
        /\ statusOf(storage, id) = "failed" => storedOf(storage, p) = {}

\* C26: the processing of a completed document has created exactly one
\* transaction and that of a failed document none; at the step that creates
\* it the transaction is stored with documentId and userId of the document,
\* aiExtracted = true and gstAmount = calculateGST(amount, rate) of the
\* extracted data.  (What the PATCH and DELETE routes do to it later is not
\* constrained.)
C26_OneTransactionPerCompletion ==
    /\ [](\A id \in DocumentIds : \A p \in runsOf(procs, id) :
            /\ statusOf(storage, id) = "completed" => Cardinality(p.created) = 1
            /\ statusOf(storage, id) = "failed" => p.created = {})
    /\ [][\A id \in DocumentIds : \A p \in runsOf(procs', id) :
            \A t \in p.created :
                (\A q \in runsOf(procs, id) : t \notin q.created) =>
                    /\ ~mapHas(storage.transactions, t)
                    /\ mapHas(storage'.transactions, t)
                    /\ Len(storage'.transactions) = Len(storage.transactions) + 1
                    /\ statusOf(storage', id) = "processing"
                    /\ AsExtracted(mapGet(storage'.transactions, t),
                                   getDocument(storage', id), p.invoiceData)]_vars

\* one document is completed and its transaction is stored as extracted, the
\* other has failed
C26_Witness ==
    \E id1, id2 \in DocumentIds :
        /\ statusOf(storage, id1) = "completed"
        /\ statusOf(storage, id2) = "failed"
        /\ getDocument(storage, id1).userId # getDocument(storage, id2).userId
        /\ \E p \in runsOf(procs, id1) :
               /\ Cardinality(storedOf(storage, p)) = 1
               /\ \A t \in storedOf(storage, p) :
                      /\ AsExtracted(mapGet(storage.transactions, t),
                                     getDocument(storage, id1), p.invoiceData)
                      /\ mapGet(storage.transactions, t).gstAmount = <<"1">>

\* C30: every MIME type the upload file filter accepts (application/pdf,
\* image/jpeg, image/jpg, image/png, image/tiff, image/tif) is handled by
\* extractTextFromFile, as a PDF or as an image; every stored document has
\* such a type, and no run of processDocumentAsync fails with "Unsupported
\* file type".
C30_AcceptedTypesAreExtractable ==
    /\ \A file \in Files :
           file # undefined /\ fileFilter(file) =>
               /\ file.mimetype \in {applicationPdf, imageJpeg, imageJpg,
                                     imagePng, imageTiff, imageTif}
               /\ \/ file.mimetype = applicationPdf
                  \/ SubSeq(file.mimetype, 1, 6) = <<"i", "m", "a", "g", "e", "/">>
    /\ \A doc \in {storage.documents[i].value : i \in 1 .. Len(storage.documents)} :
           extractionOf(doc.mimeType) \in {"extractFromPDF", "extractFromImage"}
    /\ \A p \in procs : p.error # "Unsupported file type"

\* a TIFF upload whose text was extracted, next to a PDF upload whose
\* extraction threw
C30_Witness ==
    \E p, q \in procs :
        /\ p.pc = "parseInvoice"
        /\ p.document.mimeType = imageTif
        /\ extractionOf(p.document.mimeType) = "extractFromImage"
        /\ q.pc = "returned"
        /\ q.document.mimeType = applicationPdf
        /\ q.error = "OCR extraction failed"

----------------------------------------------------------------------------
(* The transaction, tax-calculation and dashboard routes *)

\* the most tax calculations stored, the most handlers suspended at once,
\* and the months the clock of the ledger runs past its start
MaxTaxCalculations == 2

MaxSuspended == 1

LedgerMonths == 1

\* `parseFloat(s)` for a string of digits
parseFloat(s) == parseDigits(s)

\* `n.toString()` for n >= 0 held in 1/FP
fixedToString(n) ==
    IF n % FP = 0 THEN toString(n \div FP)
    ELSE toString(n \div FP) \o <<".">> \o toString(n % FP)

\* slip: the first transaction left out of the sum
reduceAmounts_skipFirst(transactions) ==
    LET RECURSIVE sumFrom(_)
        sumFrom(i) ==
            IF i > Len(transactions) THEN 0
            ELSE parseFloat(transactions[i].amount) + sumFrom(i + 1)
    IN  sumFrom(2)

\* `transactions.reduce((sum, txn) => sum + parseFloat(txn.amount.toString()), 0)`
reduceAmounts(transactions) ==
    LET RECURSIVE sumFrom(_)
        sumFrom(i) ==
            IF i > Len(transactions) THEN 0
            ELSE parseFloat(transactions[i].amount) + sumFrom(i + 1)
    IN  sumFrom(1)

\* `transactions.reduce((sum, txn) => sum + parseFloat(txn.gstAmount?.toString() || "0"), 0)`
reduceGst(transactions) ==
    LET RECURSIVE sumFrom(_)
        sumFrom(i) ==
            IF i > Len(transactions) THEN 0
            ELSE (IF transactions[i].gstAmount = null THEN parseFloat(<<"0">>)
                  ELSE parseFloat(transactions[i].gstAmount)) + sumFrom(i + 1)
    IN  sumFrom(1)

\* `insertTransactionSchema.parse(data)` succeeds: the required field is there
insertTransactionSchemaAccepts(data) == "amount" \in DOMAIN data

\* POST /api/transactions
RoutePostTransaction(user, body) ==
    /\ response = {}
    /\ uuids.transactions < MaxTransactions
    /\ LET validatedData == spread(body, [userId |-> user])
           id == randomUUID("transactions", uuids.transactions + 1)
       IN
       IF insertTransactionSchemaAccepts(validatedData)
       THEN /\ storage' = createTransaction(storage, validatedData, id)
            /\ uuids' = [uuids EXCEPT !.transactions = @ + 1]
            /\ response' = {[op |-> "post", user |-> user, status |-> 200,
                             value |-> mapGet(storage'.transactions, id)]}
       ELSE /\ response' = {[op |-> "post", user |-> user, status |-> 500]}
            /\ UNCHANGED <<storage, uuids>>
    /\ UNCHANGED <<clock, service, returned, earlier, incomeTaxEvals, requests, procs, page>>

\* POST /api/tax-calculations/calculate up to
\* `await storage.getUserTransactions(userId)`; `read` is the Map the
\* transactions were read from
RouteCalculateRead(user) ==
    /\ response = {}
    /\ Cardinality(requests) < MaxSuspended
    /\ requestOf(user) = {}
    /\ uuids.taxCalculations < MaxTaxCalculations
    /\ requests' = requests \cup
           {[op |-> "calculate", user |-> user,
             transactions |-> getUserTransactions(storage, user),
             read |-> storage.transactions]}
    /\ UNCHANGED <<clock, service, returned, earlier, incomeTaxEvals,
                   storage, uuids, procs, response, page>>

\* the rest of the handler: the financial year, the sum, calculateTax,
\* createTaxCalculation and the response
RouteCalculateStore(user) ==
    /\ response = {}
    /\ \E q \in requestOf(user) :
        /\ q.op = "calculate"
        /\ LET currentFY == getCurrentFinancialYear(clock)
               totalIncome == reduceAmounts(q.transactions)
               calculation == calculateTax(totalIncome, defaultHealthInsurance, clock)
               id == randomUUID("taxCalculations", uuids.taxCalculations + 1)
           IN
           /\ storage' = createTaxCalculation(
                             storage,
                             [userId |-> user,
                              financialYear |-> currentFY,
                              totalIncome |-> toString(calculation.totalIncome),
                              section44adaIncome |-> fixedToString(calculation.section44adaIncome),
                              regularTaxableIncome |->
                                  fixedToString(calculation.regularTaxableIncome),
                              section44adaTax |-> toString(calculation.section44adaTax),
                              regularTax |-> toString(calculation.regularTax),
                              recommendedScheme |-> calculation.recommendedScheme],
                             id)
           /\ response' = {[op |-> "calculate", user |-> user, status |-> 200,
                            now |-> clock,
                            read |-> q.read,
                            argc |-> 1,
                            totalIncome |-> totalIncome,
                            before |-> storage.taxCalculations,
                            value |-> spread(calculation, [id |-> id])]}
        /\ requests' = requests \ {q}
    /\ uuids' = [uuids EXCEPT !.taxCalculations = @ + 1]
    /\ service' = fieldsAfterCall(service)
    /\ UNCHANGED <<clock, returned, earlier, incomeTaxEvals, procs, page>>

\* GET /api/dashboard up to `await storage.getUserTransactions(userId)`
RouteDashboardRead(user) ==
    /\ response = {}
    /\ Cardinality(requests) < MaxSuspended
    /\ requestOf(user) = {}
    /\ requests' = requests \cup
           {[op |-> "dashboard", user |-> user,
             transactions |-> getUserTransactions(storage, user)]}
    /\ UNCHANGED <<clock, service, returned, earlier, incomeTaxEvals,
                   storage, uuids, procs, response, page>>

\* slip: the calculation stored last
currentOf_latest(taxCalculations) ==
    IF Len(taxCalculations) = 0 THEN undefined ELSE taxCalculations[Len(taxCalculations)]

\* `taxCalculations[0]`
currentOf(taxCalculations) ==
    IF Len(taxCalculations) = 0 THEN undefined ELSE taxCalculations[1]

\* `new Date(payment.dueDate) > new Date()`, the clock at the given day of
\* its month after midnight
isLater(date, now, day) ==
    \/ isAfter(date, now)
    \/ monthIndex(date) = monthIndex(now) /\ date.day > day

\* `advanceTaxSchedule.find(payment => new Date(payment.dueDate) > new Date())`
findNextPayment(schedule, now, day) ==
    LET later == {i \in 1 .. Len(schedule) : isLater(newDate(schedule[i].dueDate), now, day)}
    IN  IF later = {} THEN undefined
        ELSE schedule[CHOOSE i \in later : \A j \in later : i <= j]

\* the rest of the handler (the recent transactions and the monthly chart
\* data are left out of the response); `read` is the Map the calculations
\* were read from
RouteDashboardReport(user, day) ==
    /\ response = {}
    /\ \E q \in requestOf(user) :
        /\ q.op = "dashboard"
        /\ LET taxCalculations ==
                   getUserTaxCalculations(storage, user, getCurrentFinancialYear(clock))
               totalIncome == reduceAmounts(q.transactions)
               totalGST == reduceGst(q.transactions)
               currentTaxCalc == currentOf(taxCalculations)
               taxPayable == IF Len(taxCalculations) = 0 THEN 0
                             ELSE IF currentTaxCalc.section44adaTax = null
                                  THEN parseFloat(<<"0">>)
                                  ELSE parseFloat(currentTaxCalc.section44adaTax)
               advanceTaxSchedule ==
                   calculateTax(totalIncome, defaultHealthInsurance, clock).advanceTaxSchedule
               nextPayment == findNextPayment(advanceTaxSchedule, clock, day)
           IN
           response' = {[op |-> "dashboard", user |-> user, status |-> 200,
                         now |-> clock,
                         read |-> storage.taxCalculations,
                         totalIncome |-> totalIncome,
                         taxPayable |-> taxPayable,
                         nextAdvanceTax |-> IF nextPayment = undefined THEN 0
                                            ELSE nextPayment.amount,
                         pendingGST |-> totalGST]}
        /\ requests' = requests \ {q}
    /\ service' = fieldsAfterCall(service)
    /\ UNCHANGED <<clock, returned, earlier, incomeTaxEvals, storage, uuids, procs, page>>

\* the clock of the ledger starts in March
ledgerStart == [year |-> FirstYear, month |-> 3]

\* a month passes, up to LedgerMonths after the start
LedgerTick ==
    /\ response = {}
    /\ monthIndex(clock) < monthIndex(ledgerStart) + LedgerMonths
    /\ Tick

\* the bodies of the POST requests: two amounts, one body naming another
\* user, and one without an amount
PostBodies ==
    {[amount |-> toString(1000000), aiExtracted |-> FALSE],
     [amount |-> toString(25), aiExtracted |-> FALSE, userId |-> "B"],
     [aiExtracted |-> FALSE]}

\* the days of the month at which the dashboard is asked for
Days == {1, 28}

NextLedger ==
    \/ \E user \in Users, body \in PostBodies : RoutePostTransaction(user, body)
    \/ \E user \in Users, id \in TransactionIds : RouteDeleteTransaction(user, id)
    \/ \E user \in Users : RouteCalculateRead(user)
    \/ \E user \in Users : RouteCalculateStore(user)
    \/ \E user \in Users : RouteDashboardRead(user)
    \/ \E user \in Users, day \in Days : RouteDashboardReport(user, day)
    \/ LedgerTick
    \/ ResponseSent

InitLedger ==
    /\ clock = ledgerStart
    /\ service = newTaxService
    /\ returned = {}
    /\ earlier = {}
    /\ incomeTaxEvals = <<>>
    /\ AppIdle

SpecLedger == InitLedger /\ [][NextLedger]_vars

----------------------------------------------------------------------------
(* The transaction routes alone *)

\* the bodies of the PATCH requests: an amount, an owner, an identifier with
\* an owner, and the empty body
PatchBodies ==
    {[amount |-> toString(600000)],
     [userId |-> "A"],
     [id |-> randomUUID("transactions", 2), userId |-> "B"],
     <<>>}

NextTransactions ==
    \/ \E user \in Users, body \in PostBodies : RoutePostTransaction(user, body)
    \/ \E user \in Users, id \in TransactionIds, body \in PatchBodies :
           RoutePatchTransaction(user, id, body)
    \/ \E user \in Users, id \in TransactionIds : RouteDeleteTransaction(user, id)
    \/ ResponseSent

SpecTransactions == InitLedger /\ [][NextTransactions]_vars

\* the responses of a route the caller holds
ResponsesOf(op) == {r \in response : r.op = op /\ r.status = 200}

\* the sum of the amounts of the entries of a Map that belong to a user
RECURSIVE AmountOwned(_, _)
AmountOwned(map, user) ==
    IF Len(map) = 0 THEN 0
    ELSE (IF map[1].value.userId = user THEN parseDigits(map[1].value.amount) ELSE 0)
             + AmountOwned(Tail(map), user)

\* the number, in 1/FP, a decimal string with at most one fractional digit
\* stands for
TenthsOf(s) ==
    IF \E i \in 1 .. Len(s) : s[i] = "."
    THEN LET dot == CHOOSE i \in 1 .. Len(s) : s[i] = "." IN
         parseDigits(SubSeq(s, 1, dot - 1)) * FP + parseDigits(SubSeq(s, dot + 1, Len(s)))
    ELSE parseDigits(s) * FP

\* the label of the financial year at a time
LabelAt(now) ==
    IF now.month >= 4
    THEN FourDigits(now.year) \o <<"-">> \o TwoDigits(now.year + 1)
    ELSE FourDigits(now.year - 1) \o <<"-">> \o TwoDigits(now.year)

\* C22: POST /api/tax-calculations/calculate passes to calculateTax the sum
\* of the amounts of all transactions stored for the calling user when they
\* were read, with the health-insurance flag at its default, and stores one
\* new tax calculation for that user, labelled with the current financial
\* year, whose totalIncome, section44adaIncome, regularTaxableIncome,
\* section44adaTax, regularTax and recommendedScheme are those computed.
C22_CalculateSumsAndStores ==
    \A r \in ResponsesOf("calculate") :
        LET v == r.value
            stored == storage.taxCalculations
        IN  /\ r.totalIncome = AmountOwned(r.read, r.user)
            /\ r.argc = 1
            /\ v.totalIncome = r.totalIncome
            /\ 2 * v.section44adaIncome = r.totalIncome * FP
            /\ v.regularTaxableIncome
                   = MathMax(0, r.totalIncome * FP - (r.totalIncome * FP) \div 10 - 50000 * FP)
            /\ v.section44adaTax
                   = calculateIncomeTax(MathMax(0, v.section44adaIncome - 50000 * FP))
            /\ v.regularTax = calculateIncomeTax(v.regularTaxableIncome)
            /\ Len(stored) = Len(r.before) + 1
            /\ SubSeq(stored, 1, Len(r.before)) = r.before
            /\ LET entry == stored[Len(stored)] IN
               /\ entry.key = v.id
               /\ ~mapHas(r.before, v.id)
               /\ entry.value.id = v.id
               /\ entry.value.userId = r.user
               /\ entry.value.financialYear = LabelAt(r.now)
               /\ parseDigits(entry.value.totalIncome) = v.totalIncome
               /\ TenthsOf(entry.value.section44adaIncome) = v.section44adaIncome
               /\ TenthsOf(entry.value.regularTaxableIncome) = v.regularTaxableIncome
               /\ parseDigits(entry.value.section44adaTax) = v.section44adaTax
               /\ parseDigits(entry.value.regularTax) = v.regularTax
               /\ entry.value.recommendedScheme = v.recommendedScheme

\* a calculation over two transactions of the caller, one of which has been
\* deleted between the read and the calculation, stored with a fractional
\* presumptive income
C22_Witness ==
    \E r \in ResponsesOf("calculate") :
        /\ r.totalIncome = 1000025
        /\ Len(r.read) = 2
        /\ Len(storage.transactions) = 1
        /\ r.value.section44adaTax > 0
        /\ storage.taxCalculations[Len(storage.taxCalculations)].value.section44adaIncome
               = <<"5", "0", "0", "0", "1", "2", ".", "5">>

CalculationsOf(map, user, label) ==
    {map[i].value : i \in {i \in 1 .. Len(map) :
                               /\ map[i].value.userId = user
                               /\ map[i].value.financialYear = label}}

\* the calculation created first among a set of them: identifiers are drawn
\* in the order of creation
EarliestOf(calcs) == CHOOSE c \in calcs : \A d \in calcs : c.id[2] <= d.id[2]

\* C28: every step leaves the stored tax calculations in place, a completed
\* POST /api/tax-calculations/calculate adds exactly one, and GET
\* /api/dashboard reports as taxPayable the section44adaTax of the
\* calculation created first among those of the user for the current
\* financial year, 0 when there is none: after two calculations in one
\* financial year, that of the first.
C28_DashboardReportsFirstCalculation ==
    /\ [][/\ Len(storage'.taxCalculations) >= Len(storage.taxCalculations)
          /\ SubSeq(storage'.taxCalculations, 1, Len(storage.taxCalculations))
                 = storage.taxCalculations
          /\ (\E r \in response' : r.op = "calculate" /\ r.status = 200) /\ response = {}
                 => Len(storage'.taxCalculations) = Len(storage.taxCalculations) + 1
          /\ Len(storage'.taxCalculations) > Len(storage.taxCalculations)
                 => \E r \in response' : r.op = "calculate"]_vars
    /\ [](\A r \in ResponsesOf("dashboard") :
            LET calcs == CalculationsOf(r.read, r.user, LabelAt(r.now)) IN
            r.taxPayable = IF calcs = {} THEN 0
                           ELSE parseDigits(EarliestOf(calcs).section44adaTax))

\* the dashboard of a user with two calculations of different tax in the
\* current financial year: it shows the tax of the first
C28_Witness ==
    \E r \in ResponsesOf("dashboard") :
        LET calcs == CalculationsOf(storage.taxCalculations, r.user, LabelAt(clock)) IN
        /\ Cardinality(calcs) = 2
        /\ \E first, last \in calcs :
               /\ first.id[2] < last.id[2]
               /\ first.section44adaTax # last.section44adaTax
               /\ first.totalIncome # last.totalIncome
               /\ r.taxPayable = parseDigits(first.section44adaTax)
               /\ r.taxPayable # parseDigits(last.section44adaTax)

----------------------------------------------------------------------------
(* MemStorage on its own: any sequence of its operations *)

\* the financial years given to the store: two labels
StoreYears ==
    {getCurrentFinancialYear([year |-> FirstYear, month |-> 3]),
     getCurrentFinancialYear([year |-> FirstYear, month |-> 4])}

\* storage.createDocument({ userId, mimeType })
StoreCreateDocument(userId) ==
    /\ response = {}
    /\ uuids.documents < MaxDocuments
    /\ storage' = createDocument(storage, [userId |-> userId, mimeType |-> applicationPdf],
                                 randomUUID("documents", uuids.documents + 1))
    /\ uuids' = [uuids EXCEPT !.documents = @ + 1]
    /\ UNCHANGED <<clock, service, returned, earlier, incomeTaxEvals,
                   requests, procs, response, page>>

\* storage.updateDocument(id, updates)
StoreUpdateDocument(id, updates) ==
    /\ response = {}
    /\ storage' = updateDocument(storage, id, updates)
    /\ UNCHANGED <<clock, service, returned, earlier, incomeTaxEvals,
                   uuids, requests, procs, response, page>>

\* storage.createTransaction({ userId, amount })
StoreCreateTransaction(userId) ==
    /\ response = {}
    /\ uuids.transactions < MaxTransactions
    /\ storage' = createTransaction(storage, [userId |-> userId, amount |-> toString(25)],
                                    randomUUID("transactions", uuids.transactions + 1))
    /\ uuids' = [uuids EXCEPT !.transactions = @ + 1]
    /\ UNCHANGED <<clock, service, returned, earlier, incomeTaxEvals,
                   requests, procs, response, page>>

\* storage.updateTransaction(id, updates)
StoreUpdateTransaction(id, updates) ==
    /\ response = {}
    /\ storage' = updateTransaction(storage, id, updates)
    /\ UNCHANGED <<clock, service, returned, earlier, incomeTaxEvals,
                   uuids, requests, procs, response, page>>

\* storage.deleteTransaction(id)
StoreDeleteTransaction(id) ==
    /\ response = {}
    /\ storage' = deleteTransaction(storage, id)
    /\ UNCHANGED <<clock, service, returned, earlier, incomeTaxEvals,
                   uuids, requests, procs, response, page>>

\* storage.createTaxCalculation({ userId, financialYear, ... })
StoreCreateTaxCalculation(userId, financialYear) ==
    /\ response = {}
    /\ uuids.taxCalculations < MaxTaxCalculations
    /\ storage' = createTaxCalculation(
                      storage,
                      [userId |-> userId, financialYear |-> financialYear,
                       totalIncome |-> toString(0), recommendedScheme |-> "section44ada"],
                      randomUUID("taxCalculations", uuids.taxCalculations + 1))
    /\ uuids' = [uuids EXCEPT !.taxCalculations = @ + 1]
    /\ UNCHANGED <<clock, service, returned, earlier, incomeTaxEvals,
                   requests, procs, response, page>>

\* storage.updateTaxCalculation(id, updates)
StoreUpdateTaxCalculation(id, updates) ==
    /\ response = {}
    /\ storage' = updateTaxCalculation(storage, id, updates)
    /\ UNCHANGED <<clock, service, returned, earlier, incomeTaxEvals,
                   uuids, requests, procs, response, page>>

\* storage.getUserDocuments(userId), the value handed to the caller
StoreGetUserDocuments(userId) ==
    /\ response = {}
    /\ response' = {[op |-> "getUserDocuments", userId |-> userId,
                     value |-> getUserDocuments(storage, userId)]}
    /\ UNCHANGED <<clock, service, returned, earlier, incomeTaxEvals,
                   storage, uuids, requests, procs, page>>

\* storage.getUserTransactions(userId)
StoreGetUserTransactions(userId) ==
    /\ response = {}
    /\ response' = {[op |-> "getUserTransactions", userId |-> userId,
                     value |-> getUserTransactions(storage, userId)]}
    /\ UNCHANGED <<clock, service, returned, earlier, incomeTaxEvals,
                   storage, uuids, requests, procs, page>>

\* storage.getUserTaxCalculations(userId, financialYear), the second argument
\* possibly undefined
StoreGetUserTaxCalculations(userId, financialYear) ==
    /\ response = {}
    /\ response' = {[op |-> "getUserTaxCalculations", userId |-> userId,
                     financialYear |-> financialYear,
                     value |-> getUserTaxCalculations(storage, userId, financialYear)]}
    /\ UNCHANGED <<clock, service, returned, earlier, incomeTaxEvals,
                   storage, uuids, requests, procs, page>>

\* the identifiers of the tax calculations
TaxCalculationIds == {randomUUID("taxCalculations", n) : n \in 1 .. MaxTaxCalculations}

NextStore ==
    \/ \E userId \in Users : StoreCreateDocument(userId)
    \/ \E id \in DocumentIds, userId \in Users :
           StoreUpdateDocument(id, [userId |-> userId, processingStatus |-> "processing"])
    \/ \E userId \in Users : StoreCreateTransaction(userId)
    \/ \E id \in TransactionIds, userId \in Users :
           StoreUpdateTransaction(id, [userId |-> userId])
    \/ \E id \in TransactionIds : StoreDeleteTransaction(id)
    \/ \E userId \in Users, financialYear \in StoreYears :
           StoreCreateTaxCalculation(userId, financialYear)
    \/ \E id \in TaxCalculationIds, userId \in Users, financialYear \in StoreYears :
           StoreUpdateTaxCalculation(id, [userId |-> userId, financialYear |-> financialYear])
    \/ \E userId \in Users : StoreGetUserDocuments(userId)
    \/ \E userId \in Users : StoreGetUserTransactions(userId)
    \/ \E userId \in Users, financialYear \in StoreYears \cup {undefined} :
           StoreGetUserTaxCalculations(userId, financialYear)
    \/ ResponseSent

SpecStore == InitLedger /\ [][NextStore]_vars

\* the positions of a Map whose record belongs to a user
OwnedIn(map, userId) == {i \in 1 .. Len(map) : map[i].value.userId = userId}

\* the list holds the records at the given positions of the Map, each once,
\* in the order of the Map
IsSelection(list, map, positions) ==
    /\ Len(list) = Cardinality(positions)
    /\ \A i \in positions :
           list[Cardinality({j \in positions : j <= i})] = map[i].value

\* C23: after any sequence of create, update and delete operations,
\* getUserTransactions(u), getUserDocuments(u) and getUserTaxCalculations(u,
\* fy) return exactly the stored records whose userId is u (and, fy given,
\* whose financialYear is fy), and never a record of another user.
C23_ReadsAreIsolated ==
    \A r \in response :
        /\ r.op \in {"getUserDocuments", "getUserTransactions", "getUserTaxCalculations"} =>
               \A k \in 1 .. Len(r.value) : r.value[k].userId = r.userId
        /\ r.op = "getUserDocuments" =>
               IsSelection(r.value, storage.documents, OwnedIn(storage.documents, r.userId))
        /\ r.op = "getUserTransactions" =>
               IsSelection(r.value, storage.transactions,
                           OwnedIn(storage.transactions, r.userId))
        /\ r.op = "getUserTaxCalculations" =>
               IsSelection(r.value, storage.taxCalculations,
                           {i \in OwnedIn(storage.taxCalculations, r.userId) :
                                r.financialYear \in StoreYears =>
                                    storage.taxCalculations[i].value.financialYear
                                        = r.financialYear})

\* user A asks for the calculations of one financial year while the store
\* holds two calculations of A, the first of another year: the second alone
\* is returned
C23_Witness ==
    \E r \in response :
        /\ r.op = "getUserTaxCalculations"
        /\ r.userId = "A"
        /\ r.financialYear \in StoreYears
        /\ Len(r.value) = 1
        /\ Len(storage.taxCalculations) = 2
        /\ \A i \in 1 .. 2 : storage.taxCalculations[i].value.userId = "A"
        /\ r.value[1].id = randomUUID("taxCalculations", 2)

----------------------------------------------------------------------------
(* The tax calculator page of the client and its local calculation *)

\* `calculateLocalTax(income)`, income in 1/FP rupee, the result in whole
\* rupees; the tax of the loop is in 1/(FP*100) rupee
calculateLocalTax(income) ==
    LET localTaxSlabs == <<
            [min |-> 0,       max |-> 300000,   rate |-> 0],
            [min |-> 300000,  max |-> 700000,   rate |-> 5],
            [min |-> 700000,  max |-> 1000000,  rate |-> 10],
            [min |-> 1000000, max |-> 1200000,  rate |-> 15],
            [min |-> 1200000, max |-> 1500000,  rate |-> 20],
            [min |-> 1500000, max |-> Infinity, rate |-> 30] >>
        RECURSIVE loopFrom(_, _)
        loopFrom(i, tax) ==
            IF i > Len(localTaxSlabs) THEN tax
            ELSE LET slab == localTaxSlabs[i]
                     amountInSlab ==
                         (IF slab.max = Infinity THEN income
                          ELSE MathMin(income, slab.max * FP)) - slab.min * FP
                 IN  loopFrom(i + 1,
                              IF income > slab.min * FP
                              THEN tax + amountInSlab * slab.rate
                              ELSE tax)
    IN  MathRoundMulDiv(loopFrom(1, 0), 104, 100 * (FP * 100))

\* `transactions?.reduce((sum, txn) => sum + parseFloat(txn.amount.toString()), 0) || 0`
totalIncomeFromTransactions(p) ==
    IF Len(p.transactions) = 0 THEN 0 ELSE reduceAmounts(p.transactions)

\* `manualIncome ? parseFloat(manualIncome) : totalIncomeFromTransactions`
effectiveIncome(p) ==
    IF p.manualIncome # <<>> THEN parseFloat(p.manualIncome)
    ELSE totalIncomeFromTransactions(p)

\* `localCalculation`: section44adaIncome in 1/FP rupee, the taxes in rupees
localCalculation(p) ==
    IF effectiveIncome(p) > 0
    THEN [totalIncome |-> effectiveIncome(p),
          section44adaIncome |-> (effectiveIncome(p) * FP) \div 2,
          section44adaTax |->
              calculateLocalTax(MathMax(0, (effectiveIncome(p) * FP) \div 2 - 50000 * FP)),
          regularTax |->
              calculateLocalTax(
                  MathMax(0, effectiveIncome(p) * FP - (effectiveIncome(p) * FP) \div 10
                             - 50000 * FP
                             - (IF p.hasHealthInsurance THEN 25000 * FP ELSE 0)))]
    ELSE null

\* `displayResult`: calculationResult if the server has answered, the local
\* calculation and the fields derived from it otherwise; localCalculation is
\* an object exactly when effectiveIncome > 0
displayResult(p) ==
    IF p.calculationResult # {} THEN CHOOSE data \in p.calculationResult : TRUE
    ELSE IF effectiveIncome(p) > 0
    THEN spread(localCalculation(p),
                [regularTaxableIncome |->
                     MathMax(0, effectiveIncome(p) * FP - (effectiveIncome(p) * FP) \div 10
                                - 50000 * FP),
                 recommendedScheme |->
                     IF localCalculation(p).section44adaTax <= localCalculation(p).regularTax
                     THEN "section44ada" ELSE "regular",
                 savings |-> MathAbs(localCalculation(p).section44adaTax
                                     - localCalculation(p).regularTax),
                 advanceTaxSchedule |-> <<>>])
    ELSE null

\* the income field is edited: `setManualIncome(e.target.value)`
SetManualIncome(value) ==
    /\ page' = [page EXCEPT !.manualIncome = value]
    /\ UNCHANGED <<clock, service, returned, earlier, incomeTaxEvals,
                   storage, uuids, requests, procs, response>>

\* the health insurance box is ticked or cleared: `setHasHealthInsurance`
SetHasHealthInsurance(checked) ==
    /\ page' = [page EXCEPT !.hasHealthInsurance = checked]
    /\ UNCHANGED <<clock, service, returned, earlier, incomeTaxEvals,
                   storage, uuids, requests, procs, response>>

\* the query of /api/transactions delivers its data
TransactionsLoaded(data) ==
    /\ page' = [page EXCEPT !.transactions = data]
    /\ UNCHANGED <<clock, service, returned, earlier, incomeTaxEvals,
                   storage, uuids, requests, procs, response>>

\* the button is enabled and the mutation succeeds: the server has summed
\* the transactions the page has loaded, and `setCalculationResult(data)`
CalculationSucceeded ==
    /\ totalIncomeFromTransactions(page) # 0
    /\ page' = [page EXCEPT !.calculationResult =
                    {calculateTax(totalIncomeFromTransactions(page),
                                  defaultHealthInsurance, clock)}]
    /\ UNCHANGED <<clock, service, returned, earlier, incomeTaxEvals,
                   storage, uuids, requests, procs, response>>

\* the transactions the query may deliver
TransactionLists ==
    {<<>>,
     <<[amount |-> toString(600000)], [amount |-> toString(250000)]>>}

NextCalculator ==
    \/ \E totalIncome \in {i \in Incomes : i >= 0} : SetManualIncome(toString(totalIncome))
    \/ SetManualIncome(<<>>)
    \/ \E checked \in BOOLEAN : SetHasHealthInsurance(checked)
    \/ \E data \in TransactionLists : TransactionsLoaded(data)
    \/ CalculationSucceeded

InitCalculator == InitLedger

SpecCalculator == InitCalculator /\ [][NextCalculator]_vars

\* the server's result for what the page shows
serverResult(p) == calculateTax(effectiveIncome(p), p.hasHealthInsurance, clock)

\* C29: the client's local fallback calculation (calculateLocalTax and
\* displayResult) agrees with the server's calculateTax for every income > 0
\* and either value of hasHealthInsurance on totalIncome, section44adaIncome,
\* regularTaxableIncome, section44adaTax, regularTax, recommendedScheme and
\* savings.
C29_AsStated ==
    (page.calculationResult = {} /\ effectiveIncome(page) > 0) =>
        /\ displayResult(page).totalIncome = serverResult(page).totalIncome
        /\ displayResult(page).section44adaIncome = serverResult(page).section44adaIncome
        /\ displayResult(page).regularTaxableIncome = serverResult(page).regularTaxableIncome
        /\ displayResult(page).section44adaTax = serverResult(page).section44adaTax
        /\ displayResult(page).regularTax = serverResult(page).regularTax
        /\ displayResult(page).recommendedScheme = serverResult(page).recommendedScheme
        /\ displayResult(page).savings = serverResult(page).savings

====
